---- MODULE Spec2Model ----
(***************************************************************************)
(* The disk-backed B+ tree of SeleniumDB (src/inc/bptree.hh) and the       *)
(* primary index built on it (database.hh part of inverted_index.hh).      *)
(*                                                                         *)
(* A file is a function from slot number to the record stored there; slot  *)
(* 0 of an index file holds the Header, the other slots hold Nodes.        *)
(* Strings are sequences of non-zero bytes; the byte 0 never occurs in a   *)
(* C string, so <<0>> stands for a key whose bytes were never initialised. *)
(***************************************************************************)
EXTENDS Integers, Sequences, FiniteSets, TLC

VARIABLES db,      \* db[s]: the SubDatabase of field s (id, files, header)
          hist,    \* hist[s]: the (key, r) passed to Database::insert, in order
          pend,    \* pend[s]: the stream of the index pager of field s still
                   \* buffers the header written by the BplusTree constructor
          ii,      \* the InvertedIndex (id, files, header)
          iihist,  \* the (source, r) passed to InvertedIndex::build, in order
          session, \* opens: the db_open(name, false) calls so far;
                   \* base[f]: the slot counter of f when it was last opened
          pg,      \* the file of a Pager of Records used on its own
          tk,      \* the TopK ranker (id, files, header)
          tkhist,  \* the names passed to TopK::insert, in order
          vec,     \* TopK::vec
          printed, \* the (name, count) lines of the last TopK::print
          rx,      \* the globals of read_xml.hh: pos, partial_key, state,
                   \* key_list, layer_count
          xml,     \* the elements the SAX parser has open, outermost first
          heard,   \* heard[i]: the character data the parser delivered since
                   \* it opened xml[i], kept for author and title elements
          pgo,     \* the Pager object on pg: its empty flag, its failbit, and
                   \* whether it was used since its construction
          cli      \* the command line: Database::is_open and name, the last
                   \* command with its outcome, the databases on disk and
                   \* the files the pagers hold open

vars == <<db, hist, pend, ii, iihist, session, pg, tk, tkhist, vec, printed,
          rx, xml, heard, pgo, cli>>

(***************************** bounds **************************************)
HalfOrder == 1               \* the fan-out is even: ORDER = 2 * HalfOrder
MaxInsert == 8               \* Database::insert calls in one run
HashBits == 2                \* bits of a size_t
MaxPostings == 6             \* words handed to InvertedIndex::build in one run
MaxQueried == 3              \* records inserted in a tree that is queried in between
MaxSought == 2               \* postings of an index that goes on growing between searches
MaxSession == 5              \* commands of a run that closes and reopens
MaxSlot == 4                 \* highest slot a Pager is asked to save
MaxTk == 4                   \* TopK::insert calls in one run
MaxRank == 2                 \* make_topk and print calls in one run
MaxN == 2                    \* largest N given to make_topk
MaxDepth == 4                \* elements open at once in a document
MaxText == 2                 \* bytes of character data in one element
MaxOver == 1                 \* how far the K of top exceeds the retained list
MaxRead == 1                 \* read commands on one database
MaxKeys == 2                 \* keys ingested and pending in one run

ORDER == 2 * HalfOrder       \* BplusTree<Key, ORDER>
KEY_SIZE == 64               \* sizeof(Key::key)
ReadTopN == 1024             \* the N of make_topk in execute_read

DatabaseState == {"AUTHOR", "TITLE"}
Strings == {<<1>>, <<1, 2>>, <<2>>}       \* "a" < "ab" < "b"
Prefixes == Strings
Words == {<<1>>, <<1, 2>>, <<3>>, <<1, 3>>}   \* "a", "ab", "c", "ac"
Pagers == DatabaseState \cup {"INVERTED"}      \* those with a file of Records
Streams == Pagers \cup {"TOPK"}
Names == {<<1>>, <<1, 2>>, <<3>>}             \* "a", "ab", "c"
Elements == {"article", "author", "title"}    \* article: any other name
Chunks == {<<1>>, <<59, 32>>}                 \* "a", "; "
Columns == {5, 11}                            \* xmlSAX2GetColumnNumber
Dbs == {"t1", "t2"}          \* database names
IndetStr == <<0>>                         \* an uninitialised char[64]

(***************************** util ****************************************)
Min(a, b) == IF a < b THEN a ELSE b
Max(a, b) == IF a < b THEN b ELSE a

\* ceil(x / 2.0)
CeilHalf(x) == (x + 1) \div 2

\* struct Record
Record(pos, len) == [pos |-> pos, len |-> len]

(***************************** Key *****************************************)
\* strcmp over NUL-terminated strings: sign of the first differing byte,
\* the end of a string counting as byte 0
strcmp(a, b) ==
  LET differ == {i \in 1..Min(Len(a), Len(b)) : a[i] # b[i]}
  IN IF differ = {}
     THEN (IF Len(a) = Len(b) THEN 0 ELSE IF Len(a) < Len(b) THEN -1 ELSE 1)
     ELSE IF \E i \in differ : a[i] < b[i] /\ \A j \in differ : i <= j
          THEN -1 ELSE 1

\* snprintf(k.key, sizeof(k.key), "%s", s): at most sizeof - 1 bytes and a NUL
snprintf(size, s) == SubSeq(s, 1, Min(Len(s), size - 1))

\* Key k(id); snprintf(k.key, sizeof(k.key), "%s", s.c_str())
Key(s, id) == [key |-> snprintf(KEY_SIZE, s), id |-> id]

\* Key() {}: key left uninitialised, id = -1
KeyDefault == [key |-> IndetStr, id |-> -1]

KeyLt(a, b) == strcmp(a.key, b.key) < 0
KeyLeq(a, b) == strcmp(a.key, b.key) <= 0
KeyEq(a, b) == strcmp(a.key, b.key) = 0

\* struct IvKey: the hash of a word and the slot of its posting
IvKey(key, id) == [key |-> key, id |-> id, hashed |-> TRUE]

\* struct TkKey: the hash of a name and the slot of its counter
TkKey(key, id) == [key |-> key, id |-> id, hashed |-> TRUE]

IvLt(a, b) == a.key < b.key
IvLeq(a, b) == a.key <= b.key
IvEq(a, b) == a.key = b.key

\* the operators of the template parameter T of BplusTree<T, ORDER>: those of
\* Key for a tree of strings, those of IvKey or TkKey (which are alike) for a
\* tree of hashes
Hashed(a) == "hashed" \in DOMAIN a
Less(a, b) == IF Hashed(a) THEN IvLt(a, b) ELSE KeyLt(a, b)
LessEq(a, b) == IF Hashed(a) THEN IvLeq(a, b) ELSE KeyLeq(a, b)
Equal(a, b) == IF Hashed(a) THEN IvEq(a, b) ELSE KeyEq(a, b)

\* the key was never initialised (a constructed key is never so)
Indeterminate(a) == ~Hashed(a) /\ a.key = IndetStr

\* std::string(key).find(value) == 0
StartsWith(key, value) ==
  Len(value) <= Len(key) /\ SubSeq(key, 1, Len(value)) = value

(***************************** Pager ***************************************)
\* a byte range of the file that was never written
Hole == [hole |-> TRUE]

\* a freshly truncated file
EmptyFile == [i \in {} |-> Hole]

\* Pager::get_id: file size / sizeof(Register)
get_id(file) == Cardinality(DOMAIN file)

\* every record goes behind the last one, whatever slot was asked for
save_at_end(file, n, reg) ==
  [i \in 0..get_id(file) |-> IF i = get_id(file) THEN reg ELSE file[i]]

\* Pager::save: write at slot n, extending the file when n is past its end
save(file, n, reg) ==
  [i \in 0..Max(n, get_id(file) - 1) |->
     IF i = n THEN reg ELSE IF i \in DOMAIN file THEN file[i] ELSE Hole]

\* Pager::recover: read slot n into reg; reg keeps its value when nothing is read
recover(file, n, reg) == IF n \in DOMAIN file THEN file[n] ELSE reg

\* the value Pager::recover returns: gcount() > 0
recovered(file, n) == n \in DOMAIN file

\* A Pager is a std::fstream and save does not flush: a write smaller than the
\* stream buffer (a Header, a Record) stays in the buffer of the stream until
\* its next seek or its close.  The files above are what the writing stream
\* itself reads back; a second stream opened on the same file sees the file
\* without the buffered write.  unflushed(file, n) is that view when the
\* write of slot n is still buffered.
unflushed(file, n) == [i \in DOMAIN file |-> IF i = n THEN Hole ELSE file[i]]

\* Pager::Pager(file_name, create) on a file in state fstate: the exception
\* thrown, the flags of the object and what became of the file
PagerCtor(fstate, create) ==
  LET opened == fstate = "present"       \* the constructor of std::fstream
      failed == ~opened
  IN IF ~create /\ ~opened
     THEN [throw |-> "database_not_exist", is_open |-> FALSE, fail |-> TRUE,
           empty |-> FALSE, file |-> "untouched"]
     ELSE IF ~create /\ failed
     THEN [throw |-> "database_opening_error", is_open |-> FALSE,
           fail |-> TRUE, empty |-> FALSE, file |-> "untouched"]
     ELSE IF ~create
     THEN [throw |-> "none", is_open |-> TRUE, fail |-> FALSE,
           empty |-> FALSE, file |-> "untouched"]
     \* open(file_name, in | out | trunc | binary) fails on a stream that is
     \* open already and on a file that cannot be opened
     ELSE IF opened
     THEN [throw |-> "none", is_open |-> TRUE, fail |-> TRUE,
           empty |-> TRUE, file |-> "untouched"]
     ELSE IF fstate = "absent"
     THEN [throw |-> "none", is_open |-> TRUE, fail |-> FALSE,
           empty |-> TRUE, file |-> "created"]
     ELSE [throw |-> "none", is_open |-> FALSE, fail |-> TRUE,
           empty |-> TRUE, file |-> "untouched"]

\* a Pager just constructed with create = true on a file that did not exist
NewPager == [empty |-> TRUE, fail |-> FALSE, fresh |-> TRUE]

(***************************** Node ****************************************)
\* Node(page_id): count = 0, right = 0, keys uninitialised, children zeroed
Node(page_id) ==
  [page_id |-> page_id, count |-> 0, right |-> 0,
   data |-> [i \in 0..ORDER |-> KeyDefault],
   children |-> [i \in 0..(ORDER + 1) |-> 0]]

\* the shifting loop of Node::insert_in_node, j running from count down to pos
RECURSIVE insert_shift(_, _, _)
insert_shift(n, j, pos) ==
  IF j > pos
  THEN insert_shift([n EXCEPT !.data[j] = n.data[j - 1],
                              !.children[j + 1] = n.children[j]], j - 1, pos)
  ELSE n

insert_in_node(n, pos, value) ==
  LET s == insert_shift(n, n.count, pos)
  IN [s EXCEPT !.data[pos] = value,
               !.children[pos + 1] = s.children[pos],
               !.count = n.count + 1]

is_overflow(n) == n.count > ORDER

is_leaf(n) == n.children[0] = 0

(***************************** BplusTree ***********************************)
\* struct Header
Header(root_id, count) == [root_id |-> root_id, count |-> count]

\* A tree value bt is [pager |-> index file, header |-> in-memory header].

\* the bytes of a hole read as a Header: both fields zero
AsHeader(x) == IF "hole" \in DOMAIN x THEN Header(0, 0) ELSE x

\* the bytes of slot 0 read as a Node: header.count lies where page_id is
\* stored, everything behind the 16 bytes of the header is zero
AsNode(x) ==
  IF "root_id" \in DOMAIN x
  THEN [Node(x.count) EXCEPT !.data = [i \in 0..ORDER |-> [key |-> <<>>, id |-> 0]]]
  ELSE x

\* BplusTree(pager) on a pager whose empty flag is set
BplusTree(file) ==
  LET h0 == Header(1, 0)
      root == Node(h0.root_id)
      f1 == save(file, root.page_id, root)
      h1 == [h0 EXCEPT !.count = @ + 1]
  IN [pager |-> save(f1, 0, h1), header |-> h1]

\* BplusTree(pager) on a pager whose empty flag is not set: the header is
\* recovered from slot 0 of the file as the new stream sees it
BplusTreeExisting(file, seen) ==
  [pager |-> file, header |-> AsHeader(recover(seen, 0, Header(1, 0)))]

write_node(bt, id, n) == [bt EXCEPT !.pager = save(bt.pager, id, n)]

read_node(bt, id) == AsNode(recover(bt.pager, id, Node(-1)))

\* the node built before header->count is incremented
new_node_stale(bt) ==
  LET h == [bt.header EXCEPT !.count = @ + 1]
  IN [bt |-> [pager |-> save(bt.pager, 0, h), header |-> h],
      node |-> Node(bt.header.count)]

\* new_node: yields the updated tree and the fresh node
new_node(bt) ==
  LET h == [bt.header EXCEPT !.count = @ + 1]
  IN [bt |-> [pager |-> save(bt.pager, 0, h), header |-> h],
      node |-> Node(h.count)]

\* The node pointers of one call are names in a small heap mem, so that two
\* pointers to one node (left_child = overflow) are one name.
RECURSIVE reset_loop(_, _, _, _, _, _)
reset_loop(mem, parent, child, limit, i, iter) ==
  IF iter < limit
  THEN LET m1 == [mem EXCEPT ![child].children[i] = mem[parent].children[iter]]
           m2 == [m1 EXCEPT ![child].data[i] = m1[parent].data[iter]]
           m3 == [m2 EXCEPT ![child].count = m2[child].count + 1]
       IN reset_loop(m3, parent, child, limit, i + 1, iter + 1)
  ELSE [mem |-> [mem EXCEPT ![child].children[i] = mem[parent].children[iter]],
        iter |-> iter]

\* a partition point one short of the middle
reset_limit_short(p) == IF p = "LEFT" THEN CeilHalf(ORDER) - 1 ELSE ORDER + 1

\* ceil(flag ? ORDER / 2.0 : ORDER + 1)
reset_limit(p) == IF p = "LEFT" THEN CeilHalf(ORDER) ELSE ORDER + 1

reset_children(mem, parent, child, p, iter) ==
  reset_loop(mem, parent, child, reset_limit(p), 0, iter)

\* both child slots of n1 given the page of n2
write_these_nodes_same(bt, mem, n1, n2, n3, pos) ==
  LET m == [mem EXCEPT ![n1].children[pos] = mem[n2].page_id,
                       ![n1].children[pos + 1] = mem[n2].page_id]
      b1 == write_node(bt, m[n1].page_id, m[n1])
      b2 == write_node(b1, m[n2].page_id, m[n2])
  IN write_node(b2, m[n3].page_id, m[n3])

\* write_these_nodes(n1, n2, n3, pos)
write_these_nodes(bt, mem, n1, n2, n3, pos) ==
  LET m == [mem EXCEPT ![n1].children[pos] = mem[n2].page_id,
                       ![n1].children[pos + 1] = mem[n3].page_id]
      b1 == write_node(bt, m[n1].page_id, m[n1])
      b2 == write_node(b1, m[n2].page_id, m[n2])
  IN write_node(b2, m[n3].page_id, m[n3])

\* the scan with <= in place of <: a new key goes behind its equals
RECURSIVE insert_pos_leq(_, _, _)
insert_pos_leq(n, value, pos) ==
  IF pos < n.count /\ LessEq(n.data[pos], value)
  THEN insert_pos_leq(n, value, pos + 1) ELSE pos

\* the scan with the comparison turned around
RECURSIVE insert_pos_gt(_, _, _)
insert_pos_gt(n, value, pos) ==
  IF pos < n.count /\ Less(value, n.data[pos])
  THEN insert_pos_gt(n, value, pos + 1) ELSE pos

\* the scan of insert_helper: first pos with !(data[pos] < value)
RECURSIVE insert_pos(_, _, _)
insert_pos(n, value, pos) ==
  IF pos < n.count /\ Less(n.data[pos], value)
  THEN insert_pos(n, value, pos + 1) ELSE pos

\* the two assignments in the wrong order: the new leaf points at itself
link_leaf_swapped(mem, pos) ==
  LET a == [mem EXCEPT !.overflow.right = mem.right_child.page_id]
      b == [a EXCEPT !.right_child.right = a.overflow.right]
  IN [b EXCEPT !.n.children[pos + 1] = b.right_child.page_id]

\* the leaf branch of the split: the new right leaf enters the leaf chain
\* behind the left one
link_leaf(mem, pos) ==
  LET a == [mem EXCEPT !.right_child.right = mem.overflow.right]
      b == [a EXCEPT !.overflow.right = a.right_child.page_id]
  IN [b EXCEPT !.n.children[pos + 1] = b.right_child.page_id]

\* the split without the iter++ of the internal branch: the promoted key is
\* copied into the right node as well
split_child_copy_up(bt, n, pos) ==
  LET ov == read_node(bt, n.children[pos])
      nn == new_node(bt)
      m0 == [n |-> n, overflow |-> [ov EXCEPT !.count = 0],
             right_child |-> nn.node]
      r1 == reset_children(m0, "overflow", "overflow", "LEFT", 0)
      m1 == [r1.mem EXCEPT
               !.n = insert_in_node(r1.mem.n, pos, r1.mem.overflow.data[r1.iter])]
      m2 == IF ~is_leaf(m1.overflow) THEN m1 ELSE link_leaf(m1, pos)
      r2 == reset_children(m2, "overflow", "right_child", "RIGHT", r1.iter)
      m3 == [r2.mem EXCEPT !.n.children[pos] = r2.mem.overflow.page_id,
                           !.n.children[pos + 1] = r2.mem.right_child.page_id]
  IN [bt |-> write_these_nodes(nn.bt, r2.mem, "n", "overflow", "right_child", pos),
      n |-> m3.n]

\* the split that promotes the last key of the left half
split_child_promote_left(bt, n, pos) ==
  LET ov == read_node(bt, n.children[pos])
      nn == new_node(bt)
      m0 == [n |-> n, overflow |-> [ov EXCEPT !.count = 0],
             right_child |-> nn.node]
      r1 == reset_children(m0, "overflow", "overflow", "LEFT", 0)
      m1 == [r1.mem EXCEPT
               !.n = insert_in_node(r1.mem.n, pos,
                                    r1.mem.overflow.data[r1.iter - 1])]
      leaf == is_leaf(m1.overflow)
      iter2 == IF ~leaf THEN r1.iter + 1 ELSE r1.iter
      m2 == IF ~leaf THEN m1 ELSE link_leaf(m1, pos)
      r2 == reset_children(m2, "overflow", "right_child", "RIGHT", iter2)
      m3 == [r2.mem EXCEPT !.n.children[pos] = r2.mem.overflow.page_id,
                           !.n.children[pos + 1] = r2.mem.right_child.page_id]
  IN [bt |-> write_these_nodes(nn.bt, r2.mem, "n", "overflow", "right_child", pos),
      n |-> m3.n]

\* the split of the overflowed child n.children[pos] inside insert_helper;
\* yields the tree and the parent n as the caller continues to hold it
split_child(bt, n, pos) ==
  LET ov == read_node(bt, n.children[pos])
      nn == new_node(bt)
      \* left_child = overflow; left_child->count = 0
      m0 == [n |-> n, overflow |-> [ov EXCEPT !.count = 0],
             right_child |-> nn.node]
      r1 == reset_children(m0, "overflow", "overflow", "LEFT", 0)
      m1 == [r1.mem EXCEPT
               !.n = insert_in_node(r1.mem.n, pos, r1.mem.overflow.data[r1.iter])]
      leaf == is_leaf(m1.overflow)
      iter2 == IF ~leaf THEN r1.iter + 1 ELSE r1.iter
      m2 == IF ~leaf THEN m1 ELSE link_leaf(m1, pos)
      r2 == reset_children(m2, "overflow", "right_child", "RIGHT", iter2)
      m3 == [r2.mem EXCEPT !.n.children[pos] = r2.mem.overflow.page_id,
                           !.n.children[pos + 1] = r2.mem.right_child.page_id]
  IN [bt |-> write_these_nodes(nn.bt, r2.mem, "n", "overflow", "right_child", pos),
      n |-> m3.n]

\* return n->is_overflow() ? State::BT_OVERFLOW : State::OK
helper_state(n) == IF is_overflow(n) THEN "BT_OVERFLOW" ELSE "OK"

\* insert_helper after the recursive call returned r for n.children[pos]
after_child(r, n, pos) ==
  IF r.state = "BT_OVERFLOW"
  THEN LET s == split_child(r.bt, n, pos)
       IN [bt |-> s.bt, state |-> helper_state(s.n)]
  ELSE [bt |-> r.bt, state |-> helper_state(n)]

\* the leaf branch of insert_helper, n being the node after insert_in_node
leaf_insert(bt, n) ==
  [bt |-> write_node(bt, n.page_id, n), state |-> helper_state(n)]

\* insert_helper(n, value): yields the tree and the returned State
RECURSIVE insert_helper(_, _, _)
RECURSIVE insert_at(_, _, _, _)
insert_helper(bt, n, value) == insert_at(bt, n, value, insert_pos(n, value, 0))
insert_at(bt, n, value, pos) ==
  IF n.children[pos] # 0
  THEN after_child(insert_helper(bt, read_node(bt, n.children[pos]), value),
                   n, pos)
  ELSE leaf_insert(bt, insert_in_node(n, pos, value))

\* the root split that leaves the child slots of the new left node zeroed
split_root_shallow(bt) ==
  LET ov == read_node(bt, bt.header.root_id)
      nl == new_node(bt)
      nr == new_node(nl.bt)
      m0 == [overflow |-> ov, left_child |-> nl.node, right_child |-> nr.node]
      r1 == reset_children(m0, "overflow", "left_child", "LEFT", 0)
      m1 == [r1.mem EXCEPT !.overflow.data[0] = r1.mem.overflow.data[r1.iter]]
      m2 == [m1 EXCEPT !.left_child.right = m1.right_child.page_id,
                       !.left_child.children = [i \in 0..(ORDER + 1) |-> 0]]
      iter2 == IF ~is_leaf(m2.overflow) THEN r1.iter + 1 ELSE r1.iter
      r2 == reset_children(m2, "overflow", "right_child", "RIGHT", iter2)
      m3 == [r2.mem EXCEPT !.overflow.count = 1]
  IN write_these_nodes(nr.bt, m3, "overflow", "left_child", "right_child", 0)

\* the split of the overflowed root inside BplusTree::insert
split_root(bt) ==
  LET ov == read_node(bt, bt.header.root_id)
      nl == new_node(bt)
      nr == new_node(nl.bt)
      m0 == [overflow |-> ov, left_child |-> nl.node, right_child |-> nr.node]
      r1 == reset_children(m0, "overflow", "left_child", "LEFT", 0)
      m1 == [r1.mem EXCEPT !.overflow.data[0] = r1.mem.overflow.data[r1.iter]]
      m2 == [m1 EXCEPT !.left_child.right = m1.right_child.page_id]
      iter2 == IF ~is_leaf(m2.overflow) THEN r1.iter + 1 ELSE r1.iter
      r2 == reset_children(m2, "overflow", "right_child", "RIGHT", iter2)
      m3 == [r2.mem EXCEPT !.overflow.count = 1]
  IN write_these_nodes(nr.bt, m3, "overflow", "left_child", "right_child", 0)

\* BplusTree::insert after insert_helper returned r for the root
root_overflow(r) == IF r.state = "BT_OVERFLOW" THEN split_root(r.bt) ELSE r.bt

\* BplusTree::insert(value)
insert(bt, value) ==
  root_overflow(insert_helper(bt, read_node(bt, bt.header.root_id), value))

\* The indexes an insert uses: data the indexes given to the key array of
\* a node, children those given to its child array.
NoIndexes == [data |-> {}, children |-> {}]
Indexes(a, b) ==
  [data |-> a.data \cup b.data, children |-> a.children \cup b.children]

\* a shifting loop that starts one slot behind the count
insert_in_node_indexes_behind(count, pos) ==
  [data |-> {Min(count + 1, pos)}
              \cup UNION {{j, j - 1} : j \in (pos + 1)..(count + 1)},
   children |-> {Min(count + 1, pos) + 1, Min(count + 1, pos)}
                  \cup UNION {{j + 1, j} : j \in (pos + 1)..(count + 1)}]

\* Node::insert_in_node(pos, value) on a node of count keys: j runs from
\* count down to pos with data[j] = data[j - 1] and children[j + 1] =
\* children[j], then data[j] = value and children[j + 1] = children[j]
insert_in_node_indexes(count, pos) ==
  [data |-> {Min(count, pos)} \cup UNION {{j, j - 1} : j \in (pos + 1)..count},
   children |-> {Min(count, pos) + 1, Min(count, pos)}
                  \cup UNION {{j + 1, j} : j \in (pos + 1)..count}]

\* reset_children(parent, child, p, &iter): *iter runs up to the limit over
\* the arrays of parent, i from 0 over those of child, and one more child
\* slot is copied behind the loop
reset_children_indexes(p, iter) ==
  LET last == Max(iter, reset_limit(p))
  IN [data |-> iter..(last - 1) \cup 0..(last - iter - 1),
      children |-> iter..last \cup 0..(last - iter)]

\* write_these_nodes(n1, n2, n3, pos): children.set(pos) and set(pos + 1)
write_these_nodes_indexes(pos) == [data |-> {}, children |-> {pos, pos + 1}]

\* the split of the overflowed child n.children[pos] inside insert_helper
split_child_indexes(bt, n, pos) ==
  LET ov == read_node(bt, n.children[pos])
      iter == reset_limit("LEFT")
      iter2 == IF ~is_leaf(ov) THEN iter + 1 ELSE iter
  IN Indexes(reset_children_indexes("LEFT", 0),
       Indexes(insert_in_node_indexes(n.count, pos),
         Indexes([data |-> {iter}, children |-> {pos + 1}],
           Indexes(reset_children_indexes("RIGHT", iter2),
                   write_these_nodes_indexes(pos)))))

\* the split of the overflowed root inside BplusTree::insert
split_root_indexes(bt) ==
  LET ov == read_node(bt, bt.header.root_id)
      iter == reset_limit("LEFT")
      iter2 == IF ~is_leaf(ov) THEN iter + 1 ELSE iter
  IN Indexes(reset_children_indexes("LEFT", 0),
       Indexes([data |-> {0, iter}, children |-> {}],
         Indexes(reset_children_indexes("RIGHT", iter2),
                 write_these_nodes_indexes(0))))

\* insert_helper(n, value)
RECURSIVE insert_helper_indexes(_, _, _)
insert_helper_indexes(bt, n, value) ==
  LET pos == insert_pos(n, value, 0)
  IN IF n.children[pos] # 0
     THEN Indexes(insert_helper_indexes(bt, read_node(bt, n.children[pos]), value),
            IF insert_helper(bt, read_node(bt, n.children[pos]), value).state
                 = "BT_OVERFLOW"
            THEN split_child_indexes(
                   insert_helper(bt, read_node(bt, n.children[pos]), value).bt,
                   n, pos)
            ELSE NoIndexes)
     ELSE insert_in_node_indexes(n.count, pos)

\* BplusTree::insert(value)
insert_indexes(bt, value) ==
  Indexes(insert_helper_indexes(bt, read_node(bt, bt.header.root_id), value),
    IF insert_helper(bt, read_node(bt, bt.header.root_id), value).state
         = "BT_OVERFLOW"
    THEN split_root_indexes(
           insert_helper(bt, read_node(bt, bt.header.root_id), value).bt)
    ELSE NoIndexes)

(***************************** Iterator ************************************)
\* An iterator is [current_pos |-> node, index |-> i]; the pager it carries
\* is the tree's.
Iterator(node, index) == [current_pos |-> node, index |-> index]

\* BplusTree::end()
end == Iterator(Node(-1), 0)

\* Iterator::operator*
Deref(it) == it.current_pos.data[it.index]

\* ++ with index < count in place of index < count - 1
Incr_past(bt, it) ==
  IF it.index < it.current_pos.count
  THEN [it EXCEPT !.index = it.index + 1]
  ELSE IF it.current_pos.right = 0
       THEN Iterator(Node(-1), 0)
       ELSE Iterator(recover(bt.pager, it.current_pos.right, it.current_pos), 0)

\* ++ that keeps the index when it moves on to the leaf named by right
Incr_keep_index(bt, it) ==
  IF it.index < it.current_pos.count - 1
  THEN [it EXCEPT !.index = it.index + 1]
  ELSE IF it.current_pos.right = 0
       THEN Iterator(Node(-1), 0)
       ELSE Iterator(recover(bt.pager, it.current_pos.right, it.current_pos),
                     it.index)

\* Iterator::operator++
Incr(bt, it) ==
  IF it.index < it.current_pos.count - 1
  THEN [it EXCEPT !.index = it.index + 1]
  ELSE IF it.current_pos.right = 0
       THEN Iterator(Node(-1), 0)
       ELSE Iterator(recover(bt.pager, it.current_pos.right, it.current_pos), 0)

\* Iterator::operator!=: on one page the keys under the two indexes are
\* compared, and a key that was never initialised compares either way; the
\* result is the set of values the call can return
NotEqual(a, b) ==
  IF a.current_pos.page_id = b.current_pos.page_id
  THEN IF Indeterminate(Deref(a)) \/ Indeterminate(Deref(b)) THEN BOOLEAN
       ELSE {~Equal(Deref(a), Deref(b))}
  ELSE {TRUE}

\* the descent of BplusTree::begin along children[0]
RECURSIVE begin_loop(_, _)
begin_loop(bt, root) ==
  IF ~is_leaf(root) THEN begin_loop(bt, read_node(bt, root.children[0]))
  ELSE root

\* BplusTree::begin()
begin(bt) == Iterator(begin_loop(bt, read_node(bt, bt.header.root_id)), 0)

\* the scan of find_helper in an internal node: while data[pos] <= value
RECURSIVE find_pos_leq(_, _, _)
find_pos_leq(n, value, pos) ==
  IF pos < n.count /\ LessEq(n.data[pos], value)
  THEN find_pos_leq(n, value, pos + 1) ELSE pos

\* the leaf scan with <= in place of <
RECURSIVE find_pos_lt_leq(_, _, _)
find_pos_lt_leq(n, value, pos) ==
  IF pos < n.count /\ LessEq(n.data[pos], value)
  THEN find_pos_lt_leq(n, value, pos + 1) ELSE pos

\* the scan of find_helper in a leaf: while data[pos] < value
RECURSIVE find_pos_lt(_, _, _)
find_pos_lt(n, value, pos) ==
  IF pos < n.count /\ Less(n.data[pos], value)
  THEN find_pos_lt(n, value, pos + 1) ELSE pos

\* BplusTree::find_helper(value, root)
RECURSIVE find_helper(_, _, _)
find_helper(bt, value, root) ==
  IF ~is_leaf(root)
  THEN LET pos == find_pos_leq(root, value, 0)
       IN find_helper(bt, value, read_node(bt, root.children[pos]))
  ELSE LET pos == find_pos_lt(root, value, 0)
           it == Iterator(root, pos)
       IN IF pos = root.count THEN Incr(bt, it) ELSE it

\* BplusTree::find_geq(value)
find_geq(bt, value) == find_helper(bt, value, read_node(bt, bt.header.root_id))

\* BplusTree::find(value): *it == value ? it : end().  On the sentinel *it
\* is an uninitialised key, so the comparison can come out either way; the
\* result is the set of iterators the call can return.
find(bt, value) ==
  LET it == find_helper(bt, value, read_node(bt, bt.header.root_id))
  IN IF Indeterminate(Deref(it)) THEN {it, end}
     ELSE IF Equal(Deref(it), value) THEN {it} ELSE {end}

(***************************** Database ************************************)
\* struct SubDatabase, bt being the tree over page_manager
SubDb(id, record_manager, bt) ==
  [id |-> id, page_manager |-> bt.pager, record_manager |-> record_manager,
   header |-> bt.header]

\* db_open(name, new_file = true): every pager truncated, the trees built,
\* id = record_manager->get_id()
SubDatabase == SubDb(get_id(EmptyFile), EmptyFile, BplusTree(EmptyFile))

\* the B+ tree of a SubDatabase
BT(here) == [pager |-> here.page_manager, header |-> here.header]

\* the slot counter left at its initial value
db_open_existing_zero(here, stale) ==
  SubDb(0, here.record_manager,
        BplusTreeExisting(here.page_manager,
                          IF stale THEN unflushed(here.page_manager, 0)
                          ELSE here.page_manager))

\* db_close followed by db_open(name, new_file = false) for one field: the
\* new pagers are opened on the same files, the tree recovers its header, the
\* old pagers are closed when their last owner lets go (the record pager
\* before get_id, the index pager after the new tree was built), and
\* id = record_manager->get_id().  stale: the old index stream was still
\* buffering its write of slot 0 when the new tree read the header.
db_open_existing(here, stale) ==
  SubDb(get_id(here.record_manager), here.record_manager,
        BplusTreeExisting(here.page_manager,
                          IF stale THEN unflushed(here.page_manager, 0)
                          ELSE here.page_manager))

\* Database::insert(r, key, state) on the SubDatabase here
DatabaseInsert(here, r, key) ==
  SubDb(here.id + 1, save(here.record_manager, here.id, r),
        insert(BT(here), Key(key, here.id)))

\* the loop of Database::find from iter on.  On the end sentinel iter->key
\* is an uninitialised key: the test can fail (the loop stops) or succeed,
\* and then recover(-1) reads nothing, the default Record is pushed with the
\* bytes found, and the loop goes on from a fresh sentinel.  The second
\* outcome is represented by one such entry.
RECURSIVE find_loop(_, _, _, _)
find_loop(here, value, iter, results) ==
  IF iter.current_pos.page_id = -1
  THEN {results, Append(results, <<Record(0, 0), value>>)}
  ELSE IF StartsWith(Deref(iter).key, value)
       THEN LET s == recover(here.record_manager, Deref(iter).id, Record(0, 0))
            IN find_loop(here, value, Incr(BT(here), iter),
                         Append(results, <<s, Deref(iter).key>>))
       ELSE {results}

\* Database::find(value, state) on the SubDatabase here: the result lists
\* the call can return
DatabaseFind(here, value) ==
  LET k == Key(value, -1)
  IN find_loop(here, value, find_geq(BT(here), k), <<>>)

(***************************** InvertedIndex *******************************)
\* An InvertedIndex has the members of a SubDatabase (id, the two pagers and
\* the tree), its tree being a BplusTree<IvKey, 64>.

\* std::hash<std::string> is a function from strings to size_t that the
\* library chooses; here size_t has HashBits bits and the hash of a word is
\* the sum of its bytes, so that among Words there are two words with one
\* hash, words with neighbouring hashes and a word with hash 0
RECURSIVE SumBytes(_)
SumBytes(w) ==
  IF w = <<>> THEN 0
  ELSE IF Len(w) = 1 THEN w[1]
  ELSE SumBytes(SubSeq(w, 1, Len(w) \div 2))
         + SumBytes(SubSeq(w, Len(w) \div 2 + 1, Len(w)))
HashSpace == 2 ^ HashBits
hash_fn(word) == SumBytes(word) % HashSpace

\* std::isspace for the one white-space byte that occurs
IsSpace(c) == c = 32

\* the number of bytes at the front of s up to its first white space
NonSpaces(s) ==
  IF \E i \in 1..Len(s) : IsSpace(s[i])
  THEN (CHOOSE i \in 1..Len(s) :
          IsSpace(s[i]) /\ \A j \in 1..(i - 1) : ~IsSpace(s[j])) - 1
  ELSE Len(s)

\* the words that in >> word yields from the string s, the bytes of a word
\* taken together
RECURSIVE Tokens(_, _, _)
Tokens(s, word, acc) ==
  IF s = <<>> THEN (IF word = <<>> THEN acc ELSE Append(acc, word))
  ELSE IF IsSpace(Head(s))
       THEN Tokens(Tail(s), <<>>, IF word = <<>> THEN acc ELSE Append(acc, word))
       ELSE Tokens(SubSeq(s, NonSpaces(s) + 1, Len(s)),
                   word \o SubSeq(s, 1, NonSpaces(s)), acc)

\* init_ii(name, new_file = true)
init_ii == SubDb(get_id(EmptyFile), EmptyFile, BplusTree(EmptyFile))

\* the body of the loop of InvertedIndex::insert for one word
insert_word(here, word, r) ==
  SubDb(here.id + 1, save(here.record_manager, here.id, r),
        insert(BT(here), IvKey(hash_fn(word), here.id)))

RECURSIVE insert_words(_, _, _)
insert_words(here, words, r) ==
  IF words = <<>> THEN here
  ELSE insert_words(insert_word(here, Head(words), r), Tail(words), r)

\* InvertedIndex::insert(key, pos, len)
InvertedInsert(here, key, r) == insert_words(here, Tokens(key, <<>>, <<>>), r)

\* InvertedIndex::build(source, pos, len)
RECURSIVE build(_, _, _)
build(here, source, r) ==
  IF source = <<>> THEN here
  ELSE build(InvertedInsert(here, Head(source), r), Tail(source), r)

\* the loop of find_single_value from iter on.  On the end sentinel
\* iter->key is uninitialised: the comparison can fail (the loop stops) or
\* succeed, and then recover(-1) reads nothing and the default Record (0, 0)
\* enters the result; the second outcome is represented by one such entry.
RECURSIVE single_loop(_, _, _, _)
single_loop(here, hash_code, iter, result) ==
  IF iter.current_pos.page_id = -1
  THEN {result, result \cup {Record(0, 0)}}
  ELSE IF Deref(iter).key = hash_code
       THEN single_loop(here, hash_code, Incr(BT(here), iter),
              result \cup {recover(here.record_manager, Deref(iter).id,
                                   Record(0, 0))})
       ELSE {result}

\* InvertedIndex::find_single_value(v): the result sets the call can return
find_single_value(here, v) ==
  single_loop(here, hash_fn(v),
              find_geq(BT(here), IvKey((hash_fn(v) - 1) % HashSpace, -1)), {})

\* std::set_intersection folded over result_list[2..]
RECURSIVE intersect_rest(_, _, _)
intersect_rest(result_list, i, acc) ==
  IF i > Len(result_list) THEN acc
  ELSE intersect_rest(result_list, i + 1, result_list[i] \cap acc)

\* InvertedIndex::intersection(result_list), the list holding one set at least
intersection(result_list) ==
  IF Len(result_list) >= 2
  THEN intersect_rest(result_list, 3, result_list[1] \cap result_list[2])
  ELSE result_list[1]

\* the pairs of a std::set in the order of its iteration: by pos, then by len
PairLess(a, b) == a.pos < b.pos \/ (a.pos = b.pos /\ a.len < b.len)
RECURSIVE InOrder(_)
InOrder(S) ==
  IF S = {} THEN <<>>
  ELSE LET m == CHOOSE x \in S : \A y \in S \ {x} : PairLess(x, y)
       IN <<m>> \o InOrder(S \ {m})

\* the result_list of InvertedIndex::find: one result set per query token,
\* over all the sets find_single_value can return
RECURSIVE result_lists(_, _)
result_lists(here, value_list) ==
  IF value_list = <<>> THEN {<<>>}
  ELSE {<<first>> \o rest : first \in find_single_value(here, Head(value_list)),
                            rest \in result_lists(here, Tail(value_list))}

\* InvertedIndex::find(value_list): the lists the call can return, each entry
\* a Record with an empty key string
InvertedFind(here, value_list) ==
  {[i \in 1..Len(InOrder(intersection(rl))) |->
      <<InOrder(intersection(rl))[i], <<>>>>] :
     rl \in result_lists(here, value_list)}

\* result_list[0] of a result_list without elements, which intersection reads
\* when find was given no token: the sets the read yields when the process
\* survives it
NoElementSets == {{}, {Record(0, 0)}}

\* InvertedIndex::find(value_list) for any value_list: the outcomes of the
\* call, crashed when the read of result_list[0] ends the process
find_outcomes(here, value_list) ==
  IF value_list = <<>>
  THEN {[results |-> <<>>, crashed |-> TRUE]}
         \cup {[results |-> [i \in 1..Len(InOrder(g)) |-> <<InOrder(g)[i], <<>>>>],
                 crashed |-> FALSE] : g \in NoElementSets}
  ELSE {[results |-> res, crashed |-> FALSE] :
          res \in InvertedFind(here, value_list)}

(***************************** the queries on the files *********************)
\* a recover that writes slot n of the file
after_recover_written(file, n) == save(file, n, Hole)

\* The file of a Pager after recover(n, reg): clear(), seekg and read write
\* no byte, whether slot n lies in the file or not.
after_recover(file, n) == file

\* the tree after read_node(id)
after_read_node(bt, id) == [bt EXCEPT !.pager = after_recover(@, id)]

\* the tree after the descent of begin from root
RECURSIVE after_begin_loop(_, _)
after_begin_loop(bt, root) ==
  IF ~is_leaf(root)
  THEN after_begin_loop(after_read_node(bt, root.children[0]),
                        read_node(bt, root.children[0]))
  ELSE bt

\* the tree after begin()
after_begin(bt) ==
  after_begin_loop(after_read_node(bt, bt.header.root_id),
                   read_node(bt, bt.header.root_id))

\* the tree after ++it: the leaf named by right is recovered when the
\* iterator leaves its leaf
after_Incr(bt, it) ==
  IF it.index < it.current_pos.count - 1 THEN bt
  ELSE IF it.current_pos.right = 0 THEN bt
       ELSE [bt EXCEPT !.pager = after_recover(@, it.current_pos.right)]

\* the tree after find_helper(value, root)
RECURSIVE after_find_helper(_, _, _)
after_find_helper(bt, value, root) ==
  IF ~is_leaf(root)
  THEN LET pos == find_pos_leq(root, value, 0)
       IN after_find_helper(after_read_node(bt, root.children[pos]), value,
                            read_node(bt, root.children[pos]))
  ELSE LET pos == find_pos_lt(root, value, 0)
       IN IF pos = root.count THEN after_Incr(bt, Iterator(root, pos)) ELSE bt

\* the tree after find_geq(value) and after find(value), end() reading
\* nothing
after_find_geq(bt, value) ==
  after_find_helper(after_read_node(bt, bt.header.root_id), value,
                    read_node(bt, bt.header.root_id))

\* a SubDatabase whose tree is bt
WithTree(here, bt) ==
  [here EXCEPT !.page_manager = bt.pager, !.header = bt.header]

\* the SubDatabase after the loop of Database::find from iter on: every
\* turn recovers the record of iter->id and advances iter; on the end
\* sentinel the loop stops or recovers slot -1
RECURSIVE after_find_loop(_, _, _)
after_find_loop(here, value, iter) ==
  IF iter.current_pos.page_id = -1
  THEN {here, [here EXCEPT !.record_manager = after_recover(@, -1)]}
  ELSE IF StartsWith(Deref(iter).key, value)
       THEN after_find_loop(
              WithTree([here EXCEPT !.record_manager =
                                      after_recover(@, Deref(iter).id)],
                       after_Incr(BT(here), iter)),
              value, Incr(BT(here), iter))
       ELSE {here}

\* the SubDatabases Database::find(value, state) can leave
after_DatabaseFind(here, value) ==
  after_find_loop(WithTree(here, after_find_geq(BT(here), Key(value, -1))),
                  value, find_geq(BT(here), Key(value, -1)))

\* the index after the loop of find_single_value from iter on
RECURSIVE after_single_loop(_, _, _)
after_single_loop(here, hash_code, iter) ==
  IF iter.current_pos.page_id = -1
  THEN {here, [here EXCEPT !.record_manager = after_recover(@, -1)]}
  ELSE IF Deref(iter).key = hash_code
       THEN after_single_loop(
              WithTree([here EXCEPT !.record_manager =
                                      after_recover(@, Deref(iter).id)],
                       after_Incr(BT(here), iter)),
              hash_code, Incr(BT(here), iter))
       ELSE {here}

\* the indexes find_single_value(v) can leave
after_find_single_value(here, v) ==
  after_single_loop(
    WithTree(here, after_find_geq(BT(here),
                                  IvKey((hash_fn(v) - 1) % HashSpace, -1))),
    hash_fn(v),
    find_geq(BT(here), IvKey((hash_fn(v) - 1) % HashSpace, -1)))

\* the indexes InvertedIndex::find(value_list) can leave, one token after
\* the other
RECURSIVE after_InvertedFind(_, _)
after_InvertedFind(here, value_list) ==
  IF value_list = <<>> THEN {here}
  ELSE UNION {after_InvertedFind(h, Tail(value_list)) :
                h \in after_find_single_value(here, Head(value_list))}

(***************************** TopK *****************************************)
\* A TopK has the members of a SubDatabase (id, the two pagers and the tree),
\* its tree being a BplusTree<TkKey, 64>, and the vector vec.

\* TkRecord(c, n): snprintf(tkname, sizeof(tkname), "%s", n)
TkRecord(c, n) == [count |-> c, tkname |-> snprintf(KEY_SIZE, n)]

\* TkRecord() {}: count = 0, tkname left uninitialised
TkRecordDefault == [count |-> 0, tkname |-> IndetStr]

\* init_topk(name, new_file = true)
init_topk == SubDb(get_id(EmptyFile), EmptyFile, BplusTree(EmptyFile))

\* init_topk(name, new_file = false): id = get_id(&s) with a Record s, that
\* is the size of the file of TkRecords divided by sizeof(Record)
init_topk_existing(here, stale) ==
  SubDb((get_id(here.record_manager) * (4 + KEY_SIZE)) \div (4 + 4),
        here.record_manager,
        BplusTreeExisting(here.page_manager,
                          IF stale THEN unflushed(here.page_manager, 0)
                          ELSE here.page_manager))

\* the branch of TopK::insert for word != r.tkname
topk_new(here, word) ==
  SubDb(here.id + 1, save(here.record_manager, here.id, TkRecord(1, word)),
        insert(BT(here), TkKey(hash_fn(word), here.id)))

\* the branch for word == r.tkname: r, read from slot n, is saved there with
\* its count raised; a save at slot -1 fails in seekp and writes nothing
topk_known(here, n, r) ==
  [here EXCEPT !.record_manager =
     IF n < 0 THEN @ ELSE save(@, n, [r EXCEPT !.count = r.count + 1])]

\* TopK::insert once find has returned iter.  r.tkname is uninitialised when
\* recover read nothing (iter is the end sentinel, whose id is -1): the
\* comparison with word can then come out either way.
topk_at(here, word, n, r) ==
  IF r.tkname = IndetStr
  THEN {topk_new(here, word), topk_known(here, n, r)}
  ELSE IF word # r.tkname THEN {topk_new(here, word)}
       ELSE {topk_known(here, n, r)}

\* TopK::insert(word): the states the call can leave
TopKInsert(here, word) ==
  UNION {topk_at(here, word, Deref(iter).id,
                 recover(here.record_manager, Deref(iter).id, TkRecordDefault)) :
           iter \in find(BT(here), TkKey(hash_fn(word), -1))}

\* the sequences with the elements of v in another order
RECURSIVE Perms(_)
Perms(v) ==
  IF v = <<>> THEN {<<>>}
  ELSE UNION {{<<v[i]>> \o p :
                 p \in Perms(SubSeq(v, 1, i - 1) \o SubSeq(v, i + 1, Len(v)))} :
                i \in 1..Len(v)}

\* std::make_heap(first, last, std::greater<TkRecord>()): some arrangement
\* in which no element has a smaller count than the one above it
make_heap(v) ==
  {h \in Perms(v) : \A i \in 2..Len(h) : h[i \div 2].count <= h[i].count}

\* the last element moved to the front
pop_heap_last(v) ==
  {<<v[Len(v)]>> \o p : p \in Perms(SubSeq(v, 1, Len(v) - 1))}

\* std::pop_heap(first, last), called without the comparator the heap was
\* made with: the first element is moved to the back; the range in front of
\* it is rearranged for an order it is not in (any arrangement)
pop_heap(v) ==
  {p \o <<v[1]>> : p \in Perms(SubSeq(v, 2, Len(v)))}

\* vec.pop_back()
pop_back(v) == SubSeq(v, 1, Len(v) - 1)

\* while (vec.size() > N) { make_heap; pop_heap; pop_back }
RECURSIVE shrink(_, _)
shrink(v, N) ==
  IF Len(v) > N
  THEN UNION {shrink(pop_back(p), N) :
                p \in UNION {pop_heap(h) : h \in make_heap(v)}}
  ELSE {v}

\* the loop of make_topk over the slots i.. of the record file, vecs being
\* the values vec can have
RECURSIVE topk_loop(_, _, _, _)
topk_loop(file, i, vecs, N) ==
  IF i < get_id(file)
  THEN topk_loop(file, i + 1,
         UNION {shrink(h, N) :
                  h \in UNION {make_heap(Append(v, recover(file, i, TkRecordDefault))) :
                                 v \in vecs}},
         N)
  ELSE vecs

\* TopK::make_topk(N) on the record file and the vector v: the values vec
\* can have afterwards
make_topk(file, v, N) == topk_loop(file, 0, {v}, N)

\* sort(vec.begin(), vec.end(), std::greater<TkRecord>()): equal counts in
\* any order
sort_greater(v) ==
  {p \in Perms(v) : \A i \in 1..(Len(p) - 1) : p[i].count >= p[i + 1].count}

\* the lines print(K) emits from the sorted vec, K <= vec.size()
printed_lines(v, K) == SubSeq(v, 1, K)

\* vec[i] for i >= vec.size(): the bytes behind the storage of the vector
\* read as a TkRecord
PastEnd == [count |-> 0, tkname |-> IndetStr]

\* TopK::print(K) on the sorted vec, for any K: vec[i] is read for every
\* i < K.  Past the end of vec the read is outside the vector: the line is
\* made of the bytes found there, or the process ends in the read (crashed)
\* with the lines emitted before it
topk_print(v, K) ==
  IF K <= Len(v)
  THEN {[lines |-> printed_lines(v, K), crashed |-> FALSE]}
  ELSE {[lines |-> [i \in 1..K |-> IF i <= Len(v) THEN v[i] ELSE PastEnd],
         crashed |-> FALSE],
        [lines |-> v, crashed |-> TRUE]}

(***************************** read_xml *************************************)
\* std::string::npos, greater than every index
npos == 2 ^ 30

\* s.find(pat): the index, from 0, of the first occurrence of pat in s
str_find(s, pat) ==
  IF \E i \in 0..(Len(s) - Len(pat)) : SubSeq(s, i + 1, i + Len(pat)) = pat
  THEN CHOOSE i \in 0..(Len(s) - Len(pat)) :
         /\ SubSeq(s, i + 1, i + Len(pat)) = pat
         /\ \A j \in 0..(i - 1) : SubSeq(s, j + 1, j + Len(pat)) # pat
  ELSE npos

\* s.substr(0, n)
substr0(s, n) == SubSeq(s, 1, Min(n, Len(s)))

\* s.erase(0, n)
erase0(s, n) == SubSeq(s, Min(n, Len(s)) + 1, Len(s))

Dash == <<32, 45, 32>>                        \* " - "
Semi == <<59, 32>>                            \* "; "
Ellipsis == <<46, 46, 46>>                    \* "..."
Blanks(n) == [i \in 1..n |-> 32]

\* the globals as initialised, layer_count as read_xmlfile sets it
read_xml ==
  [pos |-> <<6, 0>>, partial_key |-> <<>>, state |-> "OTHER",
   key_list |-> [s \in DatabaseState |-> <<>>], layer_count |-> 0]

\* the state an element name selects
ParserState(name) ==
  IF name = "author" THEN "AUTHOR"
  ELSE IF name = "title" THEN "TITLE" ELSE "OTHER"

\* push_back_helper: what is appended to key_list[state] for the piece k
push_back_helper(k) ==
  IF Len(k) > KEY_SIZE
  THEN SubSeq(k, 1, KEY_SIZE - 3) \o Ellipsis
  ELSE k \o Blanks(KEY_SIZE - Len(k))

\* the position of the separator that comes first in key, and its length
first_sep(key) ==
  IF str_find(key, Dash) < str_find(key, Semi)
  THEN [p |-> str_find(key, Dash), n |-> 3]
  ELSE [p |-> str_find(key, Semi), n |-> 2]

\* the keys on_end_element appends for the text key
RECURSIVE split_key(_)
split_key(key) ==
  IF str_find(key, Dash) # npos \/ str_find(key, Semi) # npos
  THEN <<push_back_helper(substr0(key, first_sep(key).p))>>
       \o split_key(erase0(key, first_sep(key).p + first_sep(key).n))
  ELSE <<push_back_helper(key)>>

\* it.substr(0, it.find("  "))
cut_padding(it) == substr0(it, str_find(it, <<32, 32>>))

\* pos.second - pos.first in uint32_t, written as the int32_t of the same
\* bits: a negative value v stands for 2^32 + v
extent(pos) == Record(pos[1], pos[2] - pos[1])

\* the calls of db.insert for the keys of one list
RECURSIVE insert_keys(_, _, _)
insert_keys(here, keys, r) ==
  IF keys = <<>> THEN here
  ELSE insert_keys(DatabaseInsert(here, r, cut_padding(Head(keys))),
                   Tail(keys), r)

\* in >> word until the stream ends
word_list(it) == Tokens(it, <<>>, <<>>)

\* the calls of invidx_manager.build for the keys of one list
RECURSIVE build_keys(_, _, _)
build_keys(here, keys, r) ==
  IF keys = <<>> THEN here
  ELSE build_keys(build(here, word_list(cut_padding(Head(keys))), r),
                  Tail(keys), r)

\* the calls of topk_manager.insert for the author keys: the states they can
\* leave, heres being the states the ranker can be in before
RECURSIVE bump_keys(_, _)
bump_keys(heres, keys) ==
  IF keys = <<>> THEN heres
  ELSE bump_keys(UNION {TopKInsert(h, cut_padding(Head(keys))) : h \in heres},
                 Tail(keys))

\* what the calls for one list are logged as
inserted_keys(keys, r) ==
  [i \in 1..Len(keys) |-> [key |-> cut_padding(keys[i]), r |-> r]]
built_keys(keys, r) ==
  [i \in 1..Len(keys) |-> [source |-> word_list(cut_padding(keys[i])), r |-> r]]
bumped_keys(keys) == [i \in 1..Len(keys) |-> cut_padding(keys[i])]

(***************************** specification *******************************)
\* the pagers in the order db_open constructs them
PagerOrder ==
  <<"ii_idx", "ii_rec", "topk_idx", "topk_rec",
    "idx_title", "rec_title", "idx_author", "rec_author">>
PagerNames == {PagerOrder[i] : i \in 1..Len(PagerOrder)}

\* no file of the database is on disk apart from those the pagers hold
NoContent == [none |-> TRUE]

\* the process before its first command: no database is open, no pager made
NoCommandLine ==
  [is_open |-> FALSE, name |-> "", running |-> TRUE,
   cmd |-> "", arg |-> "", answer |-> "",
   out |-> [error |-> "none", file |-> ""],
   fs |-> [n \in Dbs |-> "absent"],
   held |-> [p \in PagerNames |-> "none"],
   disk |-> [n \in Dbs |-> NoContent]]

Total == Len(hist["AUTHOR"]) + Len(hist["TITLE"])

Init ==
  /\ db = [s \in DatabaseState |-> SubDatabase]
  /\ hist = [s \in DatabaseState |-> <<>>]
  /\ pend = [f \in Streams |-> TRUE]
  /\ ii = init_ii
  /\ iihist = <<>>
  /\ session = [opens |-> 0, ranks |-> 0, base |-> [f \in Pagers |-> 0]]
  /\ pg = EmptyFile
  /\ tk = init_topk
  /\ tkhist = <<>>
  /\ vec = <<>>
  /\ printed = <<>>
  /\ rx = read_xml
  /\ xml = <<>>
  /\ heard = <<>>
  /\ pgo = NewPager
  /\ cli = NoCommandLine

\* the adaptor hands over the extent of the record just closed; the extents
\* handed to one field are told apart by their position
DoInsert(state, key, r) ==
  /\ db' = [db EXCEPT ![state] = DatabaseInsert(db[state], r, key)]
  /\ hist' = [hist EXCEPT ![state] = Append(@, [key |-> key, r |-> r])]
  /\ pend' = [pend EXCEPT ![state] = FALSE]
  /\ UNCHANGED <<ii, iihist, session, pg, tk, tkhist, vec, printed, rx, xml,
                   heard, pgo, cli>>

Insert(state, key, r) == Total < MaxInsert /\ DoInsert(state, key, r)

Extents(state) == {Record(10 * Len(hist[state]), 1 + Len(hist[state]))}

InsertAuthor ==
  \E key \in Strings : \E r \in Extents("AUTHOR") : Insert("AUTHOR", key, r)

InsertTitle ==
  \E key \in Strings : \E r \in Extents("TITLE") : Insert("TITLE", key, r)

Next == InsertAuthor \/ InsertTitle

Spec == Init /\ [][Next]_vars

(***************************** the inverted index alone ********************)
\* the words handed to build so far, in the order of their slots
RECURSIVE Postings(_)
Postings(h) ==
  IF h = <<>> THEN <<>>
  ELSE [i \in 1..Len(Head(h).source) |->
          [word |-> Head(h).source[i], r |-> Head(h).r]] \o Postings(Tail(h))

\* the word lists of one record
Sources == {<<w>> : w \in Words} \cup {<<v, w>> : v, w \in Words}

\* the adaptor hands over the words of one key and the extent of its record
DoBuild(source, r) ==
  /\ ii' = build(ii, source, r)
  /\ iihist' = Append(iihist, [source |-> source, r |-> r])
  /\ pend' = [pend EXCEPT !["INVERTED"] = FALSE]
  /\ UNCHANGED <<db, hist, session, pg, tk, tkhist, vec, printed, rx, xml, heard,
                   pgo, cli>>

Build ==
  \E source \in Sources :
    /\ Len(Postings(iihist)) + Len(source) <= MaxPostings
    /\ DoBuild(source, Record(10 * Len(iihist), 10))

NextInv == Build

SpecInv == Init /\ [][NextInv]_vars

(***************************** a pager alone ********************************)
\* save(n, &r) on a Pager of Records; save begins with clear()
PagerSave ==
  \E n \in 0..MaxSlot : \E r \in {Record(1, 1), Record(2, 3)} :
    /\ pg' = save(pg, n, r)
    /\ pgo' = [pgo EXCEPT !.fail = FALSE, !.fresh = FALSE]
    /\ UNCHANGED <<db, hist, pend, ii, iihist, session, tk, tkhist, vec, printed,
                   rx, xml, heard, cli>>

\* the Pager is destroyed and another is constructed on the same file with
\* create = true
PagerCreate ==
  /\ pgo' = [empty |-> PagerCtor("present", TRUE).empty,
             fail |-> PagerCtor("present", TRUE).fail, fresh |-> TRUE]
  /\ pg' = IF PagerCtor("present", TRUE).file = "created" THEN EmptyFile ELSE pg
  /\ UNCHANGED <<db, hist, pend, ii, iihist, session, tk, tkhist, vec, printed,
                 rx, xml, heard, cli>>

NextPager == PagerSave \/ PagerCreate

SpecPager == Init /\ [][NextPager]_vars

(***************************** the ranker alone *****************************)
\* topk_manager.insert(name) for an author of the record just closed
TkInsert ==
  \E word \in Names :
    /\ Len(tkhist) < MaxTk
    /\ tk' \in TopKInsert(tk, word)
    /\ tkhist' = Append(tkhist, word)
    /\ pend' = [pend EXCEPT !["TOPK"] = FALSE]
    /\ UNCHANGED <<db, hist, ii, iihist, session, pg, vec, printed, rx, xml, heard,
                   pgo, cli>>

\* topk_manager.make_topk(N)
MakeTopK ==
  \E N \in 0..MaxN :
    /\ session.ranks < MaxRank
    /\ vec' \in make_topk(tk.record_manager, vec, N)
    /\ session' = [session EXCEPT !.ranks = @ + 1]
    /\ UNCHANGED <<db, hist, pend, ii, iihist, pg, tk, tkhist, printed, rx, xml,
                   heard, pgo, cli>>

\* topk_manager.print(K) with K within vec: vec is sorted and its first K
\* entries are printed
PrintTopK ==
  \E K \in 0..Len(vec) : \E p \in sort_greater(vec) :
    /\ session.ranks < MaxRank
    /\ vec' = p
    /\ printed' = printed_lines(p, K)
    /\ session' = [session EXCEPT !.ranks = @ + 1]
    /\ UNCHANGED <<db, hist, pend, ii, iihist, pg, tk, tkhist, rx, xml, heard, pgo,
                   cli>>

NextTopK == TkInsert \/ MakeTopK \/ PrintTopK

SpecTopK == Init /\ [][NextTopK]_vars

(***************************** the ranker printing **************************)
\* topk_manager.print(K) as execute_topk calls it, with the K the user gave
Top ==
  \E K \in 0..(Len(vec) + MaxOver) : \E p \in sort_greater(vec) :
    \E out \in topk_print(p, K) :
      /\ cli.running
      /\ session.ranks < MaxRank
      /\ vec' = p
      /\ printed' = out.lines
      /\ session' = [session EXCEPT !.ranks = @ + 1]
      /\ cli' = [cli EXCEPT !.cmd = "top", !.arg = K,
                            !.running = ~out.crashed]
      /\ UNCHANGED <<db, hist, pend, ii, iihist, pg, tk, tkhist, rx, xml, heard,
                     pgo>>

\* the calls of insert and make_topk of a process that has not ended
RunningInsert == cli.running /\ TkInsert
RunningMakeTopK == cli.running /\ MakeTopK

NextPrint == RunningInsert \/ RunningMakeTopK \/ Top

SpecPrint == Init /\ [][NextPrint]_vars

(***************************** the search command **************************)
\* the arguments of a search command: none, one or two tokens
SearchLists ==
  {<<>>} \cup {<<t>> : t \in Words} \cup {<<t, u>> : t, u \in Words}

\* execute_search on an open database: db.search(args) hands args to
\* invidx_manager.find and prints the records found
Search ==
  \E value_list \in SearchLists : \E out \in find_outcomes(ii, value_list) :
    /\ cli.running
    /\ printed' = out.results
    /\ cli' = [cli EXCEPT !.cmd = "search", !.arg = value_list,
                          !.running = ~out.crashed]
    /\ UNCHANGED <<db, hist, pend, ii, iihist, session, pg, tk, tkhist, vec,
                   rx, xml, heard, pgo>>

\* the calls of build of a process that has not ended, while the index holds
\* MaxSought postings at most
RunningBuild == cli.running /\ Len(Postings(iihist)) <= MaxSought /\ Build

NextSearch == RunningBuild \/ Search

SpecSearch == Init /\ [][NextSearch]_vars

(***************************** the queries alone ****************************)
\* the name and the argument of a query on the author tree, noted in cli
Queried(cmd, arg) ==
  /\ cli' = [cli EXCEPT !.cmd = cmd, !.arg = arg]
  /\ UNCHANGED <<hist, pend, ii, iihist, session, pg, tk, tkhist, vec, printed,
                 rx, xml, heard, pgo>>

\* bt->begin()
QueryBegin ==
  /\ db' = [db EXCEPT !["AUTHOR"] = WithTree(@, after_begin(BT(@)))]
  /\ Queried("begin", <<>>)

\* bt->find(value) and bt->find_geq(value)
QueryFind ==
  \E cmd \in {"find", "find_geq"} : \E value \in Strings :
    /\ db' = [db EXCEPT !["AUTHOR"] =
                WithTree(@, after_find_geq(BT(@), Key(value, -1)))]
    /\ Queried(cmd, value)

\* ++it on the iterator find_geq(value) returned
QueryAdvance ==
  \E value \in Strings :
    /\ db' = [db EXCEPT !["AUTHOR"] =
                WithTree(@, after_Incr(after_find_geq(BT(@), Key(value, -1)),
                                       find_geq(BT(@), Key(value, -1))))]
    /\ Queried("advance", value)

\* db.find(value, AUTHOR)
QueryDatabaseFind ==
  \E value \in Prefixes : \E here \in after_DatabaseFind(db["AUTHOR"], value) :
    /\ db' = [db EXCEPT !["AUTHOR"] = here]
    /\ Queried("Database::find", value)

\* invidx_manager.find(value_list), value_list of one or two tokens
QueryInvertedFind ==
  \E value_list \in SearchLists \ {<<>>} :
    \E here \in after_InvertedFind(ii, value_list) :
      /\ ii' = here
      /\ cli' = [cli EXCEPT !.cmd = "InvertedIndex::find", !.arg = value_list]
      /\ UNCHANGED <<db, hist, pend, iihist, session, pg, tk, tkhist, vec,
                     printed, rx, xml, heard, pgo>>

\* the inserts between the queries, MaxQueried records at most, and the
\* build of the one record the index holds
QueriedInsert == Len(hist["AUTHOR"]) < MaxQueried /\ InsertAuthor
QueriedBuild == iihist = <<>> /\ Build

NextQuery ==
  \/ QueriedInsert
  \/ QueriedBuild
  \/ QueryBegin
  \/ QueryFind
  \/ QueryAdvance
  \/ QueryDatabaseFind
  \/ QueryInvertedFind

SpecQuery == Init /\ [][NextQuery]_vars

(***************************** closing and reopening ***********************)
Commands == Total + Len(iihist) + session.opens

SessionInsert ==
  \E state \in DatabaseState : \E key \in {<<1>>, <<2>>} :
    /\ Commands < MaxSession
    /\ DoInsert(state, key, Record(10 * Len(hist[state]), 1 + Len(hist[state])))

SessionBuild ==
  \E word \in {<<1>>, <<3>>} :
    /\ Commands < MaxSession
    /\ DoBuild(<<word>>, Record(10 * Len(iihist), 10))

\* init_ii(name, new_file = false): as db_open does for a field
init_ii_existing(here, stale) == db_open_existing(here, stale)

\* the close and open commands given one after the other in one process
Reopen ==
  \E stale \in [Streams -> BOOLEAN] :
    /\ Commands < MaxSession
    /\ \A f \in Streams : stale[f] => pend[f]
    /\ db' = [s \in DatabaseState |-> db_open_existing(db[s], stale[s])]
    /\ ii' = init_ii_existing(ii, stale["INVERTED"])
    /\ tk' = init_topk_existing(tk, stale["TOPK"])
    /\ pend' = [f \in Streams |-> FALSE]
    /\ session' = [opens |-> session.opens + 1,
                   ranks |-> session.ranks,
                   base |-> [f \in Pagers |->
                               IF f = "INVERTED" THEN ii'.id ELSE db'[f].id]]
    /\ UNCHANGED <<hist, iihist, pg, tkhist, vec, printed, rx, xml, heard, pgo, cli>>

NextReopen == SessionInsert \/ SessionBuild \/ Reopen

SpecReopen == Init /\ [][NextReopen]_vars

(***************************** ingestion ***********************************)
\* keys logged or waiting in the lists
Held == Total + Len(rx.key_list["AUTHOR"]) + Len(rx.key_list["TITLE"])

\* on_start_element(ctx, name, attrs); the outermost element is dblp, and
\* one document is read
StartElement ==
  \E name \in Elements \cup {"dblp"} :
    /\ Len(xml) < MaxDepth
    /\ (xml = <<>>) = (name = "dblp")
    /\ name = "dblp" => rx = read_xml
    /\ xml' = Append(xml, name)
    /\ rx' = [rx EXCEPT !.partial_key = <<>>,
                        !.layer_count = @ + 1,
                        !.state = ParserState(name)]
    /\ heard' = Append(heard, <<>>)
    /\ UNCHANGED <<db, hist, pend, ii, iihist, session, pg, tk, tkhist, vec,
                   printed, pgo, cli>>

\* on_characters(ctx, ch, len) inside an element
Characters ==
  \E ch \in Chunks :
    /\ xml # <<>>
    /\ Len(rx.partial_key) + Len(ch) <= MaxText
    /\ \A i \in DOMAIN heard : Len(heard[i]) + Len(ch) <= MaxText
    /\ heard' = [i \in DOMAIN heard |->
                   IF ParserState(xml[i]) # "OTHER" THEN heard[i] \o ch
                   ELSE heard[i]]
    /\ rx' = IF rx.state # "OTHER"
             THEN [rx EXCEPT !.partial_key = @ \o ch]
             ELSE rx
    /\ UNCHANGED <<db, hist, pend, ii, iihist, session, pg, tk, tkhist, vec,
                   printed, xml, pgo, cli>>

\* key_list once on_end_element of name has appended the keys of partial_key
pushed(name) ==
  IF ParserState(name) # "OTHER"
  THEN [rx.key_list EXCEPT ![ParserState(name)] = @ \o split_key(rx.partial_key)]
  ELSE rx.key_list

\* the part of on_end_element under layer_count == 1, lists being key_list
\* and second the new pos.second
record_end(name, lists, second) ==
  /\ db' = [s \in DatabaseState |->
              insert_keys(db[s], lists[s], extent(<<rx.pos[1], second>>))]
  /\ ii' = build_keys(build_keys(ii, lists["AUTHOR"],
                                 extent(<<rx.pos[1], second>>)),
                      lists["TITLE"], extent(<<rx.pos[1], second>>))
  /\ tk' \in bump_keys({tk}, lists["AUTHOR"])
  /\ hist' = [s \in DatabaseState |->
                hist[s] \o inserted_keys(lists[s], extent(<<rx.pos[1], second>>))]
  /\ iihist' = iihist
                 \o built_keys(lists["AUTHOR"], extent(<<rx.pos[1], second>>))
                 \o built_keys(lists["TITLE"], extent(<<rx.pos[1], second>>))
  /\ tkhist' = tkhist \o bumped_keys(lists["AUTHOR"])
  /\ pend' = [f \in Streams |->
                IF f = "TOPK" THEN pend[f] /\ lists["AUTHOR"] = <<>>
                ELSE IF f = "INVERTED"
                     THEN pend[f] /\ Len(iihist') = Len(iihist)
                     ELSE pend[f] /\ lists[f] = <<>>]
  /\ rx' = [rx EXCEPT !.state = ParserState(name),
                      !.layer_count = @ - 1,
                      !.pos = <<second, second>>,
                      !.key_list = [s \in DatabaseState |-> <<>>]]

\* on_end_element(ctx, name) for the innermost open element
EndElement ==
  \E column \in Columns :
    /\ xml # <<>>
    /\ Held + (IF ParserState(xml[Len(xml)]) # "OTHER"
               THEN Len(split_key(rx.partial_key)) ELSE 0) <= MaxKeys
    /\ xml' = SubSeq(xml, 1, Len(xml) - 1)
    /\ IF rx.layer_count - 1 = 1
       THEN record_end(xml[Len(xml)], pushed(xml[Len(xml)]), column - 1)
       ELSE /\ rx' = [rx EXCEPT !.state = ParserState(xml[Len(xml)]),
                                !.layer_count = @ - 1,
                                !.key_list = pushed(xml[Len(xml)])]
            /\ UNCHANGED <<db, hist, pend, ii, iihist, tk, tkhist>>
    /\ heard' = SubSeq(heard, 1, Len(heard) - 1)
    /\ UNCHANGED <<session, pg, vec, printed, pgo, cli>>

NextIngest == StartElement \/ Characters \/ EndElement

SpecIngest == Init /\ [][NextIngest]_vars

(***************************** long keys ***********************************)
\* a text of n bytes, no two neighbours equal, without blanks or separators
Run(n) == [i \in 1..n |-> 65 + (i % 26)]

\* the character data of an author or title element: one piece or two, of
\* lengths around the 64 bytes of Key::key
Texts ==
  {Run(n) : n \in (KEY_SIZE - 3)..(KEY_SIZE + 2)}
    \cup {Run(n) \o Semi \o Run(m) :
            n \in {KEY_SIZE - 1, KEY_SIZE + 1}, m \in {1, KEY_SIZE}}
    \cup {<<1>>, <<1, 32, 2>>}

\* the parser inside <dblp><author> or <dblp><title> of the first document,
\* the element's character data delivered
InitStore ==
  \E name \in {"author", "title"} : \E text \in Texts :
    /\ db = [s \in DatabaseState |-> SubDatabase]
    /\ hist = [s \in DatabaseState |-> <<>>]
    /\ pend = [f \in Streams |-> TRUE]
    /\ ii = init_ii
    /\ iihist = <<>>
    /\ session = [opens |-> 0, ranks |-> 0, base |-> [f \in Pagers |-> 0]]
    /\ pg = EmptyFile
    /\ tk = init_topk
    /\ tkhist = <<>>
    /\ vec = <<>>
    /\ printed = <<>>
    /\ rx = [read_xml EXCEPT !.partial_key = text, !.layer_count = 2,
                             !.state = ParserState(name)]
    /\ xml = <<"dblp", name>>
    /\ heard = <<<<>>, text>>
    /\ pgo = NewPager
    /\ cli = NoCommandLine

NextStore == EndElement

SpecStore == InitStore /\ [][NextStore]_vars

(***************************** the command line ****************************)
\* The file system under database/: a database n is absent (no directory, no
\* file), present (the directory and all eight files) or unopenable (the
\* directory is there and <n>_ii_idx.bin, the first file db_open opens, is
\* present but cannot be opened).

\* the state of the first file db_open opens, and of the others
FirstFile(fs) == IF fs = "unopenable" THEN "unopenable"
                 ELSE IF fs = "present" THEN "present" ELSE "absent"

\* the files of a database as the objects of the process hold them
Content == [db |-> db, ii |-> ii, tk |-> tk]

\* the files db_open(name, true) leaves when it created all of them
FreshContent ==
  [db |-> [s \in DatabaseState |-> SubDatabase], ii |-> init_ii,
   tk |-> init_topk]

\* what a command leaves on the terminal: the exception caught, if any, and
\* the file it names
Outcome(c, cmd, arg, error, file) ==
  [c EXCEPT !.cmd = cmd, !.arg = arg, !.answer = "",
            !.out = [error |-> error, file |-> file]]

\* the same when the user was asked a question and typed answer
Answered(c, answer) == [c EXCEPT !.answer = answer]

\* if (ndb::db.is_open()) throw ndb::another_database_opening
another_open_unchecked(c) == FALSE

another_open(c) == c.is_open

\* db_close() without effect
db_close_kept(c) == c

\* Database::db_close()
db_close(c) == [c EXCEPT !.is_open = FALSE]

\* the pagers of the objects are replaced by pagers on the files of n: the
\* old pagers are closed, which writes out what they buffered
replace_pagers(c, n) ==
  [c EXCEPT !.held = [p \in PagerNames |-> n],
            !.fs[n] = "present",
            !.disk = [m \in Dbs |->
                        IF m = n THEN NoContent
                        ELSE IF \E p \in PagerNames : c.held[p] = m
                             THEN Content ELSE c.disk[m]]]

\* db_open(name, true) for a database that has no file yet
db_open_new(c, cmd, n, answer, error, file) ==
  /\ cli' = replace_pagers(
              Answered(Outcome([c EXCEPT !.name = n, !.is_open = TRUE],
                               cmd, n, error, file), answer), n)
  /\ db' = FreshContent.db
  /\ ii' = FreshContent.ii
  /\ tk' = FreshContent.tk
  /\ pend' = [f \in Streams |-> TRUE]
  /\ UNCHANGED <<hist, iihist, session, pg, tkhist, vec, printed, rx, xml,
                 heard, pgo>>

\* the files the new pagers of db_open(n, false) find
Found(c, n) == IF \A p \in PagerNames : c.held[p] = n THEN Content ELSE c.disk[n]

\* db_open(name, false) for a database whose files are all present; the
\* streams of the pagers it replaces are taken to be flushed or not together
\* (Reopen takes them one by one)
db_open_old(c, cmd, n) ==
  \E stale \in {[f \in Streams |-> b] : b \in BOOLEAN} :
    /\ \A f \in Streams :
         stale[f] => (pend[f] /\ \A p \in PagerNames : c.held[p] = n)
    /\ cli' = replace_pagers(
                Outcome([c EXCEPT !.name = n, !.is_open = TRUE],
                        cmd, n, "none", ""), n)
    /\ db' = [s \in DatabaseState |->
                db_open_existing(Found(c, n).db[s], stale[s])]
    /\ ii' = init_ii_existing(Found(c, n).ii, stale["INVERTED"])
    /\ tk' = init_topk_existing(Found(c, n).tk, stale["TOPK"])
    /\ pend' = [f \in Streams |-> FALSE]
    /\ UNCHANGED <<hist, iihist, session, pg, tkhist, vec, printed, rx, xml,
                   heard, pgo>>

\* a command that ends in a catch block, or prints only
Rejected(c, cmd, arg, error, file) ==
  /\ cli' = Outcome(c, cmd, arg, error, file)
  /\ UNCHANGED <<db, hist, pend, ii, iihist, session, pg, tk, tkhist, vec,
                 printed, rx, xml, heard, pgo>>

\* a command that asked the user and did nothing more
Asked(c, cmd, arg, answer, error, file) ==
  /\ cli' = Answered(Outcome(c, cmd, arg, error, file), answer)
  /\ UNCHANGED <<db, hist, pend, ii, iihist, session, pg, tk, tkhist, vec,
                 printed, rx, xml, heard, pgo>>

\* execute_create with args = <<name>> or none
Create ==
  \E name \in Dbs : \E nargs \in {0, 1} :
    /\ cli.running
    /\ IF another_open(cli)
       THEN Rejected(cli, "create", name, "AnotherDatabaseOpening", cli.name)
       ELSE IF nargs # 1
       THEN Rejected(cli, "create", name, "InvalidArgumentsNum", "")
       ELSE IF cli.fs[name] # "absent"
       THEN Rejected(cli, "create", name, "DatabaseExists", name)
       ELSE db_open_new(cli, "create", name, "", "none", "")

\* the name of the file the first Pager of db_open(name, ...) is given
FirstPath(name) == <<name, PagerOrder[1]>>

\* execute_open with args = <<name>> or none; answer is what the user types
\* when asked whether to create the database, and "y" is given only for a
\* database that has no file
Open ==
  \E name \in Dbs : \E nargs \in {0, 1} : \E answer \in {"y", "n"} :
    /\ cli.running
    /\ answer = "y" => cli.fs[name] = "absent"
    /\ IF another_open(cli)
       THEN Rejected(cli, "open", name, "AnotherDatabaseOpening", cli.name)
       ELSE IF nargs # 1
       THEN Rejected(cli, "open", name, "InvalidArgumentsNum", "")
       ELSE IF PagerCtor(FirstFile(cli.fs[name]), FALSE).throw
                 = "database_not_exist"
       THEN IF answer = "y"
            THEN db_open_new(db_close([cli EXCEPT !.name = name,
                                                  !.is_open = TRUE]),
                             "open", name, answer, "DatabaseNotExist",
                             FirstPath(name))
            ELSE Asked(db_close([cli EXCEPT !.name = name, !.is_open = TRUE]),
                       "open", name, answer, "DatabaseNotExist",
                       FirstPath(name))
       ELSE IF PagerCtor(FirstFile(cli.fs[name]), FALSE).throw
                 = "database_opening_error"
       THEN Asked(db_close([cli EXCEPT !.name = name, !.is_open = TRUE]),
                  "open", name, "n", "DatabaseOpeningError", FirstPath(name))
       ELSE db_open_old(cli, "open", name)

\* the record of xml/small.xml: one author, one title
SmallAuthor == <<1>>
SmallTitle == <<1, 2>>
SmallLists ==
  [s \in DatabaseState |->
     split_key(IF s = "AUTHOR" THEN SmallAuthor ELSE SmallTitle)]

\* execute_read: read_xmlfile("xml/small.xml") and make_topk(1024)
Read ==
  \E column \in Columns :
    /\ cli.running
    /\ IF ~cli.is_open
       THEN Rejected(cli, "read", "", "DatabaseNotOpen", "")
       ELSE /\ db["AUTHOR"].id < MaxRead
            /\ cli' = Outcome(cli, "read", "", "none", "")
            /\ db' = [s \in DatabaseState |->
                        insert_keys(db[s], SmallLists[s],
                                    extent(<<rx.pos[1], column - 1>>))]
            /\ ii' = build_keys(build_keys(ii, SmallLists["AUTHOR"],
                                           extent(<<rx.pos[1], column - 1>>)),
                                SmallLists["TITLE"],
                                extent(<<rx.pos[1], column - 1>>))
            /\ tk' \in bump_keys({tk}, SmallLists["AUTHOR"])
            /\ vec' \in make_topk(tk'.record_manager, vec, ReadTopN)
            /\ pend' = [f \in Streams |-> FALSE]
            /\ rx' = [read_xml EXCEPT !.pos = <<column - 1, column - 1>>,
                                      !.partial_key = SmallTitle]
            /\ hist' = [s \in DatabaseState |->
                          hist[s] \o inserted_keys(SmallLists[s],
                                      extent(<<rx.pos[1], column - 1>>))]
            /\ iihist' = iihist
                 \o built_keys(SmallLists["AUTHOR"],
                               extent(<<rx.pos[1], column - 1>>))
                 \o built_keys(SmallLists["TITLE"],
                               extent(<<rx.pos[1], column - 1>>))
            /\ tkhist' = tkhist \o bumped_keys(SmallLists["AUTHOR"])
            /\ UNCHANGED <<session, pg, printed, xml, heard, pgo>>

\* if (!ndb::db.is_open()) throw ndb::database_not_open
Checked(cmd, arg) ==
  /\ cli.running
  /\ IF ~cli.is_open
     THEN Rejected(cli, cmd, arg, "DatabaseNotOpen", "")
     ELSE Rejected(cli, cmd, arg, "none", "")

\* execute_insert: prints that insert is for testing only
CmdInsert == Checked("insert", "")

\* execute_select: prints the author tree
CmdSelect == Checked("select", "")

\* execute_find with the number of arguments given
CmdFind ==
  \E nargs \in 1..3 :
    /\ cli.running
    /\ IF ~cli.is_open
       THEN Rejected(cli, "find", "", "DatabaseNotOpen", "")
       ELSE IF nargs > 2
       THEN Rejected(cli, "find", "", "InvalidArgumentsNum", "")
       ELSE IF nargs < 2
       THEN Rejected(cli, "find", "", "EmptyInquiry", "")
       ELSE Rejected(cli, "find", "", "none", "")

\* execute_search with one token at least (Search is the command with any
\* token list)
CmdSearch == Checked("search", "")

\* execute_whoami
CmdWhoami == Checked("whoami", "")

\* execute_topk with args = <<K>> or none, K within vec
CmdTop ==
  \E nargs \in {0, 1} : \E K \in 0..Len(vec) : \E p \in sort_greater(vec) :
    /\ cli.running
    /\ IF nargs # 1
       THEN Rejected(cli, "top", "", "InvalidArgumentsNum", "")
       ELSE /\ cli' = Outcome(cli, "top", "", "none", "")
            /\ vec' = p
            /\ printed' = printed_lines(p, K)
            /\ UNCHANGED <<db, hist, pend, ii, iihist, session, pg, tk,
                           tkhist, rx, xml, heard, pgo>>

\* execute_close
Close ==
  /\ cli.running
  /\ Rejected(db_close(cli), "close", "", "none", "")

\* execute_exit: db_close() and exit(EXIT_SUCCESS), which destroys the
\* objects and with them the pagers
Exit ==
  /\ cli.running
  /\ cli' = [Outcome(db_close(cli), "exit", "", "none", "")
               EXCEPT !.running = FALSE,
                      !.held = [p \in PagerNames |-> "none"],
                      !.disk = [m \in Dbs |->
                                  IF \E p \in PagerNames : cli.held[p] = m
                                  THEN Content ELSE cli.disk[m]]]
  /\ UNCHANGED <<db, hist, pend, ii, iihist, session, pg, tk, tkhist, vec,
                 printed, rx, xml, heard, pgo>>

\* the process as main starts it, over the databases earlier runs left
InitCmd ==
  \E fs \in [Dbs -> {"absent", "present", "unopenable"}] :
    /\ db = [s \in DatabaseState |-> SubDatabase]
    /\ hist = [s \in DatabaseState |-> <<>>]
    /\ pend = [f \in Streams |-> TRUE]
    /\ ii = init_ii
    /\ iihist = <<>>
    /\ session = [opens |-> 0, ranks |-> 0, base |-> [f \in Pagers |-> 0]]
    /\ pg = EmptyFile
    /\ tk = init_topk
    /\ tkhist = <<>>
    /\ vec = <<>>
    /\ printed = <<>>
    /\ rx = read_xml
    /\ xml = <<>>
    /\ heard = <<>>
    /\ pgo = NewPager
    /\ cli = [NoCommandLine EXCEPT
                !.fs = fs,
                !.disk = [n \in Dbs |->
                            IF fs[n] = "present" THEN FreshContent
                            ELSE NoContent]]

NextCmd ==
  \/ Create \/ Open \/ Read \/ CmdInsert \/ CmdSelect \/ CmdFind
  \/ CmdSearch \/ CmdWhoami \/ CmdTop \/ Close \/ Exit

SpecCmd == InitCmd /\ [][NextCmd]_vars

(***************************** reading the files ***************************)
Tree(s) == BT(db[s])
Page(s, p) == db[s].page_manager[p]
PageIds(s) == DOMAIN db[s].page_manager \ {0}
Root(s) == db[s].header.root_id
Fuel(s) == get_id(db[s].page_manager) + 1

\* keys i..j of a node, as a sequence
DataSeq(n, i, j) == [x \in 1..(j - i + 1) |-> n.data[i + x - 1]]
ChildSeq(n, i, j) == [x \in 1..(j - i + 1) |-> n.children[i + x - 1]]
KeysOf(n) == DataSeq(n, 0, n.count - 1)

\* the leaves below page p, left to right through children[0..count]
RECURSIVE LeafSeq(_, _, _)
RECURSIVE LeafSeqFrom(_, _, _, _)
LeafSeq(s, p, fuel) ==
  IF fuel = 0 \/ p \notin PageIds(s) THEN <<>>
  ELSE IF is_leaf(Page(s, p)) THEN <<p>>
  ELSE LeafSeqFrom(s, Page(s, p), 0, fuel - 1)
LeafSeqFrom(s, n, i, fuel) ==
  IF i > n.count THEN <<>>
  ELSE LeafSeq(s, n.children[i], fuel) \o LeafSeqFrom(s, n, i + 1, fuel)

\* the pages below page p, p included
RECURSIVE SubtreePages(_, _, _)
SubtreePages(s, p, fuel) ==
  IF fuel = 0 \/ p \notin PageIds(s) THEN {}
  ELSE IF is_leaf(Page(s, p)) THEN {p}
  ELSE {p} \cup UNION {SubtreePages(s, Page(s, p).children[i], fuel - 1) :
                         i \in 0..Page(s, p).count}

\* the key strings held by the pages below p
SubtreeKeys(s, p) ==
  UNION {{Page(s, q).data[i].key : i \in 0..(Page(s, q).count - 1)} :
           q \in SubtreePages(s, p, Fuel(s))}

InternalPages(s) == {p \in SubtreePages(s, Root(s), Fuel(s)) : ~is_leaf(Page(s, p))}
Depth(s) == IF InternalPages(s) = {} THEN 1
            ELSE IF \E p \in InternalPages(s) \ {Root(s)} : TRUE THEN 3 ELSE 2

\* the leaves reached from page p by following right
RECURSIVE ChainFrom(_, _, _)
ChainFrom(s, p, fuel) ==
  IF fuel = 0 \/ p \notin PageIds(s) THEN <<>>
  ELSE <<p>> \o ChainFrom(s, Page(s, p).right, fuel - 1)

LeftmostLeaf(s) == begin(Tree(s)).current_pos.page_id
Chain(s) == ChainFrom(s, LeftmostLeaf(s), Fuel(s))

\* the stored entries in leaf-chain order, each with its position
RECURSIVE EntriesOf(_, _, _)
EntriesOf(s, chain, i) ==
  IF i > Len(chain) THEN <<>>
  ELSE [x \in 1..Page(s, chain[i]).count |->
          [page |-> chain[i], index |-> x - 1,
           entry |-> Page(s, chain[i]).data[x - 1]]]
       \o EntriesOf(s, chain, i + 1)
Entries(s) == EntriesOf(s, Chain(s), 1)

\* what begin() and repeated ++ yield until the sentinel is reached
RECURSIVE WalkFrom(_, _, _)
WalkFrom(bt, it, fuel) ==
  IF fuel = 0 \/ it.current_pos.page_id = -1 THEN <<>>
  ELSE <<Deref(it)>> \o WalkFrom(bt, Incr(bt, it), fuel - 1)
Walk(s) == WalkFrom(Tree(s), begin(Tree(s)), MaxInsert + 3)

\* number of times the string k was inserted into field s
Inserted(s, k) == Cardinality({i \in 1..Len(hist[s]) : hist[s][i].key = k})
Occurrences(seq, k) == Cardinality({i \in 1..Len(seq) : seq[i].key = k})

(***************************** C1 ******************************************)
\* C1: once insert has returned, every node stored in an index file has
\* count <= ORDER and every node but the root has count >= ceil(ORDER/2).
C1_NodeOccupancy ==
  \A s \in DatabaseState : \A p \in PageIds(s) :
     /\ Page(s, p).count <= ORDER
     /\ p # Root(s) => Page(s, p).count >= CeilHalf(ORDER)

\* a tree of three levels whose root took a key from a split internal child
C1_Witness ==
  \E s \in DatabaseState :
     /\ Depth(s) = 3
     /\ Page(s, Root(s)).count >= 2

(***************************** C2 ******************************************)
\* the calls of Database::insert on field s whose key begins with prefix
Matching(s, prefix) ==
  {i \in 1..Len(hist[s]) : StartsWith(hist[s][i].key, prefix)}

\* res lists exactly the matching insertions, each once with its extent, in
\* lexicographic order
ExactResult(s, prefix, res) ==
  /\ Len(res) = Cardinality(Matching(s, prefix))
  /\ {res[i] : i \in 1..Len(res)} =
       {<<hist[s][i].r, hist[s][i].key>> : i \in Matching(s, prefix)}
  /\ \A i \in 1..(Len(res) - 1) : strcmp(res[i][2], res[i + 1][2]) <= 0

\* C2: Database::find(prefix, field) returns exactly the inserted keys of the
\* field that begin with prefix, one result per inserted occurrence with the
\* extent given at insertion, in lexicographic order.  Stated for the most
\* favourable content of the sentinel's uninitialised key: some list the
\* call can return is the exact one.
C2_PrefixSearch ==
  \A s \in DatabaseState : \A prefix \in Prefixes :
    \E res \in DatabaseFind(db[s], prefix) : ExactResult(s, prefix, res)

(***************************** C3 ******************************************)
\* positions, in leaf-chain order, of the stored entries with key >= k
GeqPositions(s, k) ==
  {i \in 1..Len(Entries(s)) : strcmp(Entries(s)[i].entry.key, k) >= 0}

SetMin(S) == CHOOSE x \in S : \A y \in S : x <= y

\* C3: find_geq(k) is positioned at the first entry, in leaf-chain order,
\* whose key is >= k, or is the end sentinel when there is none.
C3_FindGeq ==
  \A s \in DatabaseState : \A k \in Strings :
    LET it == find_geq(Tree(s), Key(k, -1))
    IN IF GeqPositions(s, k) = {}
       THEN it.current_pos.page_id = -1
       ELSE LET e == Entries(s)[SetMin(GeqPositions(s, k))]
            IN it.current_pos.page_id = e.page /\ it.index = e.index

(***************************** C4 ******************************************)
\* the iterator is on an entry stored in the index file of field s
OnStoredEntry(s, it) ==
  /\ it.current_pos.page_id \in PageIds(s)
  /\ it.current_pos = Page(s, it.current_pos.page_id)
  /\ is_leaf(it.current_pos)
  /\ it.index \in 0..(it.current_pos.count - 1)

\* C4: find(k) returns an iterator on a stored entry with key k if and only
\* if k was inserted, and the end sentinel (page_id = -1) otherwise.
C4_FindRoundTrip ==
  \A s \in DatabaseState : \A k \in Strings :
    \A it \in find(Tree(s), Key(k, -1)) :
       IF Inserted(s, k) > 0
       THEN OnStoredEntry(s, it) /\ Deref(it).key = k
       ELSE it.current_pos.page_id = -1

\* a tree with several leaves in which one string is found in a leaf that is
\* not the leftmost and another string was never inserted
C4_Witness ==
  \E s \in DatabaseState : \E k1, k2 \in Strings :
     /\ Inserted(s, k1) > 0 /\ Inserted(s, k2) = 0
     /\ Depth(s) >= 2
     /\ \E it \in find(Tree(s), Key(k1, -1)) :
          it.current_pos.page_id \notin {-1, LeftmostLeaf(s)}

(***************************** C5 ******************************************)
\* C5: from begin(), advancing until the sentinel yields keys in
\* non-decreasing order, each inserted key at least as often as inserted.
C5_Iteration ==
  \A s \in DatabaseState :
    LET w == Walk(s)
    IN /\ \A i \in 1..(Len(w) - 1) : KeyLeq(w[i], w[i + 1])
       /\ \A k \in Strings : Occurrences(w, k) >= Inserted(s, k)

\* an iteration that crosses at least three leaves and meets a duplicate
C5_Witness ==
  \E s \in DatabaseState :
     /\ Len(Chain(s)) >= 3
     /\ Len(Walk(s)) >= 5
     /\ \E k \in Strings : Inserted(s, k) >= 2

(***************************** C6 ******************************************)
\* C6 (as claimed): of two entries with equal keys, forward iteration yields
\* the one inserted earlier first.
C6_InsertionOrder ==
  \A s \in DatabaseState :
    LET w == Walk(s)
    IN \A i, j \in 1..Len(w) :
         (i < j /\ KeyEq(w[i], w[j])) => w[i].id < w[j].id

\* C6 (amended): duplicates are kept, and of two entries with equal keys
\* forward iteration yields the one inserted later first.
C6_ReverseInsertionOrder ==
  \A s \in DatabaseState :
    LET w == Walk(s)
    IN /\ \A k \in Strings : Occurrences(w, k) = Inserted(s, k) \/ hist[s] = <<>>
       /\ \A i, j \in 1..Len(w) :
            (i < j /\ KeyEq(w[i], w[j])) => w[i].id > w[j].id

\* equal keys that ended up in different leaves
C6_Witness ==
  \E s \in DatabaseState : \E i, j \in 1..Len(Entries(s)) :
     /\ i < j
     /\ KeyEq(Entries(s)[i].entry, Entries(s)[j].entry)
     /\ Entries(s)[i].page # Entries(s)[j].page

(***************************** C7 ******************************************)
\* C7: in every internal node with count = n the keys below children[i] are
\* strictly less than keys[i] (i < n), those below children[n] are >= keys[n-1].
C7_StrictPartition ==
  \A s \in DatabaseState : \A p \in InternalPages(s) :
    LET n == Page(s, p)
    IN /\ \A i \in 0..(n.count - 1) :
            \A k \in SubtreeKeys(s, n.children[i]) : strcmp(k, n.data[i].key) < 0
       /\ \A k \in SubtreeKeys(s, n.children[n.count]) :
            strcmp(k, n.data[n.count - 1].key) >= 0

\* C7 (amended): the keys below children[i] are less than or equal to keys[i]
\* (i < n), those below children[n] are >= keys[n-1].
C7_WeakPartition ==
  \A s \in DatabaseState : \A p \in InternalPages(s) :
    LET n == Page(s, p)
    IN /\ \A i \in 0..(n.count - 1) :
            \A k \in SubtreeKeys(s, n.children[i]) : strcmp(k, n.data[i].key) <= 0
       /\ \A k \in SubtreeKeys(s, n.children[n.count]) :
            strcmp(k, n.data[n.count - 1].key) >= 0

\* a three-level tree in which a key below children[0] of the root equals
\* keys[0] of the root
C7_Witness ==
  \E s \in DatabaseState :
     /\ Depth(s) = 3
     /\ Page(s, Root(s)).data[0].key
          \in SubtreeKeys(s, Page(s, Root(s)).children[0])

(***************************** C8 ******************************************)
\* C8: following right from the leftmost leaf visits every leaf exactly once,
\* in key order, and only the rightmost leaf has right = 0.
C8_LeafChain ==
  \A s \in DatabaseState :
    /\ Chain(s) = LeafSeq(s, Root(s), Fuel(s))
    /\ \A i \in 1..Len(Chain(s)) :
         (Page(s, Chain(s)[i]).right = 0) <=> (i = Len(Chain(s)))

\* a chain of four leaves under internal nodes that were split themselves
C8_Witness ==
  \E s \in DatabaseState : Depth(s) = 3 /\ Len(Chain(s)) >= 5

(***************************** C9 ******************************************)
\* C9: every internal node stored in an index file has right = 0.
C9_InternalRightZero ==
  \A s \in DatabaseState : \A p \in PageIds(s) :
    ~is_leaf(Page(s, p)) => Page(s, p).right = 0

(***************************** C10 *****************************************)
\* the call of BplusTree::insert made by the step on field s, up to the
\* return of insert_helper
RootHelper(s) ==
  LET bt == BT(db[s])
  IN insert_helper(bt, read_node(bt, bt.header.root_id),
                   Key(hist'[s][Len(hist'[s])].key, db[s].id))

\* the step inserts into field s and the root overflows: page 1 is then an
\* internal node with one key over two pages allocated by this split, which
\* hold the entries of the overflowed root
RootSplitStep(s) ==
  LET r == RootHelper(s)
      ov == read_node(r.bt, 1)
      root == db'[s].page_manager[1]
      l == db'[s].page_manager[root.children[0]]
      rt == db'[s].page_manager[root.children[1]]
  IN (hist'[s] # hist[s] /\ r.state = "BT_OVERFLOW") =>
       /\ root.page_id = 1 /\ root.count = 1 /\ ~is_leaf(root)
       /\ root.children[0] # root.children[1]
       /\ {root.children[0], root.children[1]} \cap DOMAIN r.bt.pager = {}
       /\ {root.children[0], root.children[1]} \subseteq 1..db'[s].header.count
       /\ l.page_id = root.children[0] /\ rt.page_id = root.children[1]
       /\ IF is_leaf(ov)
          THEN /\ KeysOf(l) \o KeysOf(rt) = KeysOf(ov)
               /\ is_leaf(l) /\ is_leaf(rt)
               /\ root.data[0] = rt.data[0]
          ELSE /\ KeysOf(l) \o <<root.data[0]>> \o KeysOf(rt) = KeysOf(ov)
               /\ ChildSeq(l, 0, l.count) \o ChildSeq(rt, 0, rt.count)
                    = ChildSeq(ov, 0, ov.count)

\* C10: header.root_id is always 1 and page 1 is the root (every page is
\* below it); when the root overflows page 1 becomes a single-key internal
\* node over two newly allocated pages holding the former root's entries.
C10_RootStaysPut ==
  /\ [](\A s \in DatabaseState :
          /\ db[s].header.root_id = 1
          /\ db[s].page_manager[0].root_id = 1
          /\ db[s].page_manager[1].page_id = 1
          /\ SubtreePages(s, 1, Fuel(s)) = PageIds(s))
  /\ [][\A s \in DatabaseState : RootSplitStep(s)]_vars

\* the root was split as a leaf and later again as an internal node
C10_Witness ==
  \E s \in DatabaseState :
     /\ Depth(s) = 3
     /\ db[s].header.root_id = 1
     /\ Page(s, 1).count = 1

(***************************** C11 *****************************************)
\* the pages met on the way down from page p through children[0..count],
\* listed once per path that leads to them
RECURSIVE PreOrder(_, _, _)
RECURSIVE PreOrderFrom(_, _, _, _)
PreOrder(s, p, fuel) ==
  IF fuel = 0 \/ p \notin PageIds(s) THEN <<>>
  ELSE IF is_leaf(Page(s, p)) THEN <<p>>
  ELSE <<p>> \o PreOrderFrom(s, Page(s, p), 0, fuel - 1)
PreOrderFrom(s, n, i, fuel) ==
  IF i > n.count THEN <<>>
  ELSE PreOrder(s, n.children[i], fuel) \o PreOrderFrom(s, n, i + 1, fuel)

\* C11: header.count is the highest page id allocated: the pages reachable
\* from the root are exactly 1..header.count, each by exactly one path and
\* each stored under its own id, and slot 0 of the index file holds the
\* in-memory header.
C11_PageAllocation ==
  \A s \in DatabaseState :
    LET all == PreOrder(s, Root(s), Fuel(s))
    IN /\ PageIds(s) = 1..db[s].header.count
       /\ {all[i] : i \in 1..Len(all)} = 1..db[s].header.count
       /\ Len(all) = db[s].header.count
       /\ \A p \in PageIds(s) : Page(s, p).page_id = p
       /\ db[s].page_manager[0] = db[s].header

\* a tree of three levels: leaf, internal and root splits have all allocated
C11_Witness ==
  \E s \in DatabaseState :
     /\ Depth(s) = 3
     /\ db[s].header.count >= 7
     /\ Len(PreOrder(s, Root(s), Fuel(s))) >= 7

(***************************** C12 *****************************************)
\* the files and the counter of field s hold what was inserted: the slot
\* counter is the next unused slot, slot i recovers the extent of insertion
\* i, and forward iteration yields the inserted keys with their slot ids
Persisted(s) ==
  /\ db[s].id = Len(hist[s])
  /\ \A i \in 1..Len(hist[s]) :
       recover(db[s].record_manager, i - 1, Record(0, 0)) = hist[s][i].r
  /\ hist[s] # <<>> =>
       /\ Len(Walk(s)) = Len(hist[s])
       /\ {<<Walk(s)[i].key, Walk(s)[i].id>> : i \in 1..Len(Walk(s))} =
            {<<hist[s][i].key, i - 1>> : i \in 1..Len(hist[s])}

\* C12: db_close followed by db_open(name, false) yields trees whose
\* iteration produces the same keys with the same slot ids, every slot
\* recovers the same extent, and further inserts continue at the next unused
\* slot id: the step changes none of these, and whatever is inserted before
\* or after it is iterated and recovered.
C12_Persistence ==
  /\ [](\A s \in DatabaseState : Persisted(s))
  /\ [][\A s \in DatabaseState :
          hist' = hist =>
            /\ hist[s] # <<>> => Walk(s)' = Walk(s)
            /\ db'[s].record_manager = db[s].record_manager
            /\ db'[s].id = db[s].id]_vars

(***************************** C13 *****************************************)
\* the three record files with their slot counters and what was inserted
RecFile(f) == IF f = "INVERTED" THEN ii.record_manager ELSE db[f].record_manager
Counter(f) == IF f = "INVERTED" THEN ii.id ELSE db[f].id
Given(f) == IF f = "INVERTED" THEN Postings(iihist) ELSE hist[f]

\* C13: in the author, title and inverted record files every insertion gets
\* the slot id file_size / sizeof(Record) of that moment; the slot ids are
\* 0, 1, 2, ... in the order of insertion and none is assigned twice, across
\* close and reopen as well.
C13_SlotIds ==
  /\ [](\A f \in Pagers :
          /\ Counter(f) = get_id(RecFile(f))
          /\ DOMAIN RecFile(f) = 0..(Len(Given(f)) - 1)
          /\ \A i \in 1..Len(Given(f)) : RecFile(f)[i - 1] = Given(f)[i].r)
  /\ [][\A f \in Pagers :
          RecFile(f)' # RecFile(f) =>
            RecFile(f)' = save(RecFile(f), get_id(RecFile(f)),
                               Given(f)'[Len(Given(f)')].r)]_vars

\* every file holds a record, and one of them got records both before and
\* after a close and reopen
C13_Witness ==
  /\ session.opens >= 1
  /\ \A f \in Pagers : Counter(f) >= 1
  /\ \E f \in Pagers : 0 < session.base[f] /\ session.base[f] < Counter(f)

(***************************** C14 *****************************************)
\* C14: save(n, r) followed by recover(n, out) returns true with out = r for
\* every slot n >= 0, also past the end of the file, and the save leaves every
\* other slot of the file as it was.
C14_PagerRoundTrip ==
  \A n \in 0..(MaxSlot + 1) : \A r \in {Record(5, 8), Record(0, 0)} :
    /\ recovered(save(pg, n, r), n)
    /\ recover(save(pg, n, r), n, Record(7, 7)) = r
    /\ \A m \in DOMAIN pg \ {n} :
         /\ recovered(save(pg, n, r), m)
         /\ recover(save(pg, n, r), m, Record(7, 7)) = recover(pg, m, Record(7, 7))

\* a file that was extended by a save past its end (it has a hole) and in
\* which a slot before the hole was written
C14_Witness ==
  \E i, j, k \in DOMAIN pg :
     /\ i < j /\ j < k
     /\ "hole" \notin DOMAIN pg[i]
     /\ "hole" \in DOMAIN pg[j]
     /\ "hole" \notin DOMAIN pg[k]

(***************************** C15 *****************************************)
\* the extents of the postings whose stored hash is that of token
PostedExtents(token) ==
  {Postings(iihist)[i].r :
     i \in {j \in 1..Len(Postings(iihist)) :
              hash_fn(Postings(iihist)[j].word) = hash_fn(token)}}

\* C15: after any sequence of build calls the result of find_single_value
\* for a token is exactly the set of extents of the postings whose stored
\* hash equals hash(token), whatever other hashes the tree holds.  Stated for
\* the most favourable content of the sentinel's uninitialised key: some set
\* the call can return is the exact one.
C15_SingleToken ==
  \A token \in Words :
    \E res \in find_single_value(ii, token) : res = PostedExtents(token)

(***************************** C16 *****************************************)
\* the query token lists
Queries ==
  {<<t>> : t \in Words} \cup {<<t, u>> : t, u \in Words}
    \cup {<<t, u, v>> : t, u, v \in Words}

\* the extents of the records one of whose keys contains the word
RecordsWith(word) ==
  {iihist[i].r :
     i \in {j \in 1..Len(iihist) :
              \E x \in 1..Len(iihist[j].source) : iihist[j].source[x] = word}}

\* no two distinct words among those stored and those asked for share a hash
NoCollision(q) ==
  \A v, w \in {Postings(iihist)[i].word : i \in 1..Len(Postings(iihist))}
               \cup {q[i] : i \in 1..Len(q)} :
     hash_fn(v) = hash_fn(w) => v = w

\* C16: InvertedIndex::find returns the intersection of the per-token extent
\* sets as a list in (pos, len) order without duplicates, and when no hashes
\* collide that list holds exactly the extents of the records that contain
\* every query token.  Stated for the most favourable content of the
\* sentinel's uninitialised key.
C16_Search ==
  \A q \in Queries :
    /\ \A rl \in result_lists(ii, q) :
         \E res \in InvertedFind(ii, q) :
           /\ {res[i][1] : i \in 1..Len(res)} =
                {e \in rl[1] : \A t \in 1..Len(q) : e \in rl[t]}
           /\ \A i \in 1..(Len(res) - 1) : PairLess(res[i][1], res[i + 1][1])
    /\ NoCollision(q) =>
         \E res \in InvertedFind(ii, q) :
           {res[i][1] : i \in 1..Len(res)} =
             {e \in RecordsWith(q[1]) : \A t \in 1..Len(q) : e \in RecordsWith(q[t])}

(***************************** C17 *****************************************)
\* the names given to TopK::insert so far
TkNames == {tkhist[i] : i \in 1..Len(tkhist)}

\* the number of TopK::insert calls made with name
Calls(name) == Cardinality({i \in 1..Len(tkhist) : tkhist[i] = name})

\* the slots of the ranker's record file that hold a record of name
SlotsOf(file, name) ==
  {n \in DOMAIN file : "tkname" \in DOMAIN file[n] /\ file[n].tkname = name}

\* no two distinct inserted names share a hash
NoTkCollision ==
  \A x, y \in TkNames : x # y => hash_fn(x) # hash_fn(y)

\* one record per distinct inserted name, its count the number of calls
CountsExact ==
  /\ get_id(tk.record_manager) = Cardinality(TkNames)
  /\ \A name \in TkNames :
       \E n \in DOMAIN tk.record_manager :
         /\ SlotsOf(tk.record_manager, name) = {n}
         /\ tk.record_manager[n].count = Calls(name)

\* what one TopK::insert of the name last logged does to the file
InsertStep ==
  LET name == tkhist'[Len(tkhist')]
  IN IF name \in TkNames
     THEN /\ tk'.id = tk.id
          /\ DOMAIN tk'.record_manager = DOMAIN tk.record_manager
     ELSE /\ tk'.id = tk.id + 1
          /\ DOMAIN tk'.record_manager = DOMAIN tk.record_manager \cup {tk.id}
          /\ tk'.record_manager[tk.id] = TkRecord(1, name)

\* C17: in a session on a fresh database in which no two distinct inserted
\* names share a hash, the record file holds exactly one TkRecord per distinct
\* name with count = the number of TopK::insert calls made with it; an insert
\* of a known name rewrites in place and allocates no slot, an insert of an
\* unknown name appends one record with count 1.
C17_Counting ==
  /\ [](NoTkCollision => CountsExact)
  /\ [][(tkhist' # tkhist /\ NoTkCollision /\ NoTkCollision') => InsertStep]_vars

(***************************** C18 *****************************************)
\* the entries of the ranker's dedupe tree, in leaf order
TkEntries ==
  SelectSeq(WalkFrom(BT(tk), begin(BT(tk)), MaxTk + 3), Hashed)

\* the TopK::insert calls made with a name of hash h
CallsWithHash(h) == {i \in 1..Len(tkhist) : hash_fn(tkhist[i]) = h}

\* the name of hash h that was inserted first
FirstWithHash(h) ==
  tkhist[CHOOSE i \in CallsWithHash(h) : \A j \in CallsWithHash(h) : i <= j]

\* C18: the dedupe tree holds at most one entry per hash value, and every
\* insert of a name of some hash has raised the count of the record of the
\* name of that hash that was inserted first.
C18_Collisions ==
  /\ \A i, j \in 1..Len(TkEntries) :
       TkEntries[i].key = TkEntries[j].key => i = j
  /\ \A h \in {hash_fn(x) : x \in TkNames} :
       \E n \in SlotsOf(tk.record_manager, FirstWithHash(h)) :
         tk.record_manager[n].count = Cardinality(CallsWithHash(h))

(***************************** C19 *****************************************)
\* how often the record x occurs in the sequence v, in the file
InVec(v, x) == Cardinality({i \in 1..Len(v) : v[i] = x})
InFile(file, x) == Cardinality({n \in DOMAIN file : file[n] = x})

\* v holds n records of the file, each slot at most once, and no record of
\* the file left out of v has a greater count than one in v
IsTop(v, file, n) ==
  /\ Len(v) = n
  /\ \A i \in 1..n : InVec(v, v[i]) <= InFile(file, v[i])
  /\ \A m \in DOMAIN file :
       InVec(v, file[m]) < InFile(file, file[m]) =>
         \A i \in 1..n : file[m].count <= v[i].count

NonIncreasing(v) ==
  \A i \in 1..(Len(v) - 1) : v[i].count >= v[i + 1].count

\* the lines print(K) can emit are the K largest of the file in order
PrintsTop(v, file) ==
  \A K \in 0..Len(v) : \A p \in sort_greater(v) :
    IsTop(printed_lines(p, K), file, K) /\ NonIncreasing(printed_lines(p, K))

\* C19: with vec empty, make_topk(N) leaves min(N, number of records)
\* records in vec, none of the records left out has a greater count than a
\* retained one, and print(K) for K up to the retained size then emits the K
\* largest in non-increasing count order.
C19_TopK ==
  \A N \in 0..MaxN :
    \A v \in make_topk(tk.record_manager, <<>>, N) :
      /\ IsTop(v, tk.record_manager, Min(N, get_id(tk.record_manager)))
      /\ PrintsTop(v, tk.record_manager)

\* make_topk(N) has run on an empty vec over three records of which it kept
\* fewer, not all of one count, and print has emitted lines of the result
C19_Witness ==
  /\ get_id(tk.record_manager) >= 3
  /\ \E m, n \in DOMAIN tk.record_manager :
       tk.record_manager[m].count < tk.record_manager[n].count
  /\ session.ranks = 2
  /\ Len(vec) >= 1
  /\ \E N \in 1..MaxN :
       /\ N < get_id(tk.record_manager)
       /\ \E v \in make_topk(tk.record_manager, <<>>, N) : vec \in sort_greater(v)
  /\ printed = vec

(***************************** C20 *****************************************)
\* the step is the close of a record element
AtRecordEnd == rx.layer_count = 2 /\ rx'.layer_count = 1

\* the entries of the inverted index's tree, in leaf order
IiEntries ==
  SelectSeq(WalkFrom(BT(ii), begin(BT(ii)), get_id(ii.record_manager) + 3),
            Hashed)

\* the sum of the counts of the ranker's records of name
RECURSIVE SumCounts(_, _)
SumCounts(file, slots) ==
  IF slots = {} THEN 0
  ELSE file[CHOOSE n \in slots : TRUE].count
       + SumCounts(file, slots \ {CHOOSE n \in slots : TRUE})
CountOf(here, name) ==
  SumCounts(here.record_manager, SlotsOf(here.record_manager, name))

\* the words of the keys of a list, in order
RECURSIVE AllWords(_)
AllWords(keys) ==
  IF keys = <<>> THEN <<>>
  ELSE word_list(cut_padding(Head(keys))) \o AllWords(Tail(keys))

\* each key of the list has got the next slot of field s, the slot holds e and
\* the tree has the key with that slot
FieldIngested(s, keys, e) ==
  /\ db'[s].id = db[s].id + Len(keys)
  /\ \A i \in 1..Len(keys) :
       /\ recovered(db'[s].record_manager, db[s].id + i - 1)
       /\ recover(db'[s].record_manager, db[s].id + i - 1, Record(0, 0)) = e
       /\ \E j \in 1..Len(Walk(s)') :
            Walk(s)'[j] = Key(cut_padding(keys[i]), db[s].id + i - 1)

\* each word has got the next slot of the inverted index, the slot holds e
\* and the tree has the word's hash with that slot
Indexed(words, e) ==
  /\ ii'.id = ii.id + Len(words)
  /\ \A i \in 1..Len(words) :
       /\ recovered(ii'.record_manager, ii.id + i - 1)
       /\ recover(ii'.record_manager, ii.id + i - 1, Record(0, 0)) = e
       /\ \E j \in 1..Len(IiEntries') :
            IiEntries'[j] = IvKey(hash_fn(words[i]), ii.id + i - 1)

\* the count of each name of the list has risen by its occurrences in it
Bumped(names) ==
  \A i \in 1..Len(names) :
    CountOf(tk', names[i]) =
      CountOf(tk, names[i])
        + Cardinality({j \in 1..Len(names) : names[j] = names[i]})

\* what the close of a record element does with the lists and the extent e
\* of the record
RecordEndEffect(lists, e) ==
  /\ lists["AUTHOR"] \o lists["TITLE"] # <<>> => e.len >= 0
  /\ \A s \in DatabaseState : FieldIngested(s, lists[s], e)
  /\ Indexed(AllWords(lists["AUTHOR"] \o lists["TITLE"]), e)
  /\ Bumped(bumped_keys(lists["AUTHOR"]))
  /\ rx'.key_list = [s \in DatabaseState |-> <<>>]
  /\ rx'.pos[1] = rx'.pos[2]

\* C20: when a record element closes, every pending author is inserted into
\* the author tree, indexed in the inverted index and bumped in the ranker,
\* every pending title is inserted into the title tree and the inverted
\* index, all with the extent (previous record end, this record end -
\* previous record end); afterwards both lists are empty and the previous
\* record end is this one.  Nothing is inserted and the previous record end
\* does not move at any other step.
C20_RecordEnd ==
  /\ [][AtRecordEnd =>
          RecordEndEffect(pushed(xml[Len(xml)]),
                          Record(rx.pos[1], rx'.pos[2] - rx.pos[1]))]_vars
  /\ [][(hist' # hist \/ iihist' # iihist \/ tkhist' # tkhist
           \/ rx'.pos[1] # rx.pos[1]) => AtRecordEnd]_vars


(***************************** C21 *****************************************)
\* the pagers of the process all hold files of the database n
AllHold(c, n) == \A p \in PagerNames : c.held[p] = n

\* an open or create command given while a database is open
RejectedWhileOpen ==
  (cli.is_open /\ cli'.cmd \in {"open", "create"})
    => /\ cli'.out.error = "AnotherDatabaseOpening"
       /\ cli'.is_open /\ cli'.name = cli.name
       /\ cli'.held = cli.held /\ cli'.fs = cli.fs /\ cli'.disk = cli.disk
       /\ UNCHANGED <<db, ii, tk, pend>>

\* C21: at most one database is open at a time: an open or create command
\* given while is_open is true is rejected with AnotherDatabaseOpening and
\* leaves is_open, the name of the database and every pager as they were; a
\* database becomes open only through open or create, and closed only
\* through close, exit or a failed open; while a database is open all the
\* pagers hold its files.
C21_OneOpen ==
  [][/\ RejectedWhileOpen
     /\ (~cli.is_open /\ cli'.is_open) => cli'.cmd \in {"open", "create"}
     /\ (cli.is_open /\ ~cli'.is_open) => cli'.cmd \in {"close", "exit", "open"}
     /\ cli'.is_open => AllHold(cli', cli'.name)]_vars

\* create of another database was asked for while one was open
C21_Witness ==
  /\ cli.is_open /\ cli.cmd = "create" /\ cli.arg # cli.name
  /\ cli.out.error = "AnotherDatabaseOpening"
  /\ AllHold(cli, cli.name)

(***************************** C22 *****************************************)
\* the commands that work on the open database
Operations == {"read", "insert", "select", "find", "search", "top", "whoami"}

\* a command among ops given while no database is open is rejected with
\* DatabaseNotOpen and leaves the indexes, the record files and the ranker
NotOpenRejected(ops) ==
  (~cli.is_open /\ cli'.cmd \in ops)
    => /\ cli'.out.error = "DatabaseNotOpen"
       /\ UNCHANGED <<db, ii, tk, vec, printed, pend>>

\* C22: every command on the database (read, insert, select, find, search,
\* top, whoami) given while no database is open is rejected with
\* DatabaseNotOpen and neither reads nor changes an index, a record file or
\* the ranker.
C22_NotOpen == [][NotOpenRejected(Operations)]_vars

\* the same for the commands other than top
C22_NotOpenButTop == [][NotOpenRejected(Operations \ {"top"})]_vars

\* read was given while no database was open
C22_Witness ==
  /\ ~cli.is_open /\ cli.cmd = "read" /\ cli.out.error = "DatabaseNotOpen"

(***************************** C23 *****************************************)
\* open was given for database cli'.arg, whose files are absent, while no
\* database was open
OpensAbsent ==
  /\ ~cli.is_open /\ cli'.cmd = "open"
  /\ cli'.out.error # "InvalidArgumentsNum"
  /\ cli.fs[cli'.arg] = "absent"

\* C23: opening a database whose files are absent with create_new = false
\* fails with DatabaseNotExist naming the missing file and creates no file;
\* when the user declines to create the database, no database is open
\* afterwards, so that a following open or create is accepted.
C23_OpenAbsent ==
  [][/\ OpensAbsent
          => /\ cli'.out = [error |-> "DatabaseNotExist",
                            file |-> FirstPath(cli'.arg)]
             /\ PagerCtor(FirstFile(cli.fs[cli'.arg]), FALSE).file = "untouched"
             /\ cli'.answer # "y"
                  => (~cli'.is_open /\ cli'.fs = cli.fs /\ cli'.held = cli.held)
     /\ (~cli.is_open /\ cli'.cmd \in {"open", "create"})
          => cli'.out.error # "AnotherDatabaseOpening"
     /\ (cli.cmd = "open" /\ cli.answer = "n" /\ cli'.cmd = "create"
           /\ cli'.out.error \notin {"InvalidArgumentsNum", "DatabaseExists"})
          => (cli'.is_open /\ cli'.out.error = "none")]_vars

\* the user declined to create the absent database t2, and it is absent still
C23_Witness ==
  /\ cli.cmd = "open" /\ cli.arg = "t2" /\ cli.answer = "n"
  /\ cli.out = [error |-> "DatabaseNotExist", file |-> FirstPath("t2")]
  /\ cli.fs["t2"] = "absent" /\ ~cli.is_open

(***************************** C24 *****************************************)
\* C24: constructing a Pager with create_new = false on a file that is
\* present but cannot be opened fails with DatabaseOpeningError, which
\* differs from the DatabaseNotExist raised for an absent file: open of a
\* database whose first file is such a file reports DatabaseOpeningError.
C24_Unopenable ==
  [][(/\ ~cli.is_open /\ cli'.cmd = "open"
      /\ cli'.out.error # "InvalidArgumentsNum"
      /\ cli.fs[cli'.arg] = "unopenable")
       => cli'.out.error = "DatabaseOpeningError"]_vars

(***************************** C25 *****************************************)
\* C25: after db_close every pager that db_open opened (the index and the
\* record files of the author, title, inverted and top-K stores) has
\* released its file: no file of the closed database remains open.
C25_Released == ~cli.is_open => AllHold(cli, "none")

\* the same once the process has ended
C25_ReleasedAtExit == ~cli.running => AllHold(cli, "none")

(***************************** C26 *****************************************)
\* C26: a Pager constructed with create_new = true leaves the file with
\* length zero, whatever it held before, and has its empty flag set.
C26_Truncated == pgo.fresh => (pg = EmptyFile /\ pgo.empty)

\* the same for the flag alone
C26_EmptyFlag == pgo.fresh => pgo.empty

(***************************** C27 *****************************************)
\* ov is the overflowed node, l and rt the two nodes written in its place
\* and promoted the key put into the node above them
SplitShape(ov, l, rt, promoted) ==
  /\ ov.count = ORDER + 1
  /\ KeysOf(l) = DataSeq(ov, 0, CeilHalf(ORDER) - 1)
  /\ IF is_leaf(ov)
     THEN /\ is_leaf(l) /\ is_leaf(rt)
          /\ rt.count = ORDER + 1 - CeilHalf(ORDER)
          /\ KeysOf(rt) = DataSeq(ov, CeilHalf(ORDER), ORDER)
          /\ promoted = rt.data[0]
          /\ KeysOf(l) \o KeysOf(rt) = KeysOf(ov)
     ELSE /\ rt.count = ORDER - CeilHalf(ORDER)
          /\ promoted = ov.data[CeilHalf(ORDER)]
          /\ \A i \in 0..(l.count - 1) : l.data[i] # promoted
          /\ \A i \in 0..(rt.count - 1) : rt.data[i] # promoted
          /\ KeysOf(rt) = DataSeq(ov, CeilHalf(ORDER) + 1, ORDER)
          /\ ChildSeq(rt, 0, rt.count) = ChildSeq(ov, CeilHalf(ORDER) + 1, ORDER + 1)
          /\ ChildSeq(l, 0, l.count) = ChildSeq(ov, 0, CeilHalf(ORDER))
          /\ KeysOf(l) \o <<promoted>> \o KeysOf(rt) = KeysOf(ov)

\* the split made by insert_helper on n.children[pos], bt being the tree in
\* which that child has overflowed and after the tree the split leaves
ChildSplitShape(bt, after, n, pos) ==
  LET ov == read_node(bt, n.children[pos])
      above == after.pager[n.page_id]
  IN /\ above.children[pos] = ov.page_id
     /\ above.children[pos + 1] = after.header.count
     /\ after.header.count \notin DOMAIN bt.pager
     /\ SplitShape(ov, after.pager[ov.page_id],
                   after.pager[after.header.count], above.data[pos])

\* the kinds of node split below n by insert_helper(n, value)
RECURSIVE SplitsBelow(_, _, _)
SplitsBelow(bt, n, value) ==
  LET pos == insert_pos(n, value, 0)
  IN IF n.children[pos] = 0 THEN {}
     ELSE LET child == read_node(bt, n.children[pos])
              r == insert_helper(bt, child, value)
          IN SplitsBelow(bt, child, value) \cup
             (IF r.state # "BT_OVERFLOW" THEN {}
              ELSE IF is_leaf(read_node(r.bt, n.children[pos]))
                   THEN {"leaf"} ELSE {"internal"})

\* every split made below n by insert_helper(n, value) has the shape claimed
RECURSIVE SplitsBelowShaped(_, _, _)
SplitsBelowShaped(bt, n, value) ==
  LET pos == insert_pos(n, value, 0)
  IN IF n.children[pos] = 0 THEN TRUE
     ELSE LET child == read_node(bt, n.children[pos])
              r == insert_helper(bt, child, value)
          IN /\ SplitsBelowShaped(bt, child, value)
             /\ r.state = "BT_OVERFLOW" =>
                  ChildSplitShape(r.bt, split_child(r.bt, n, pos).bt, n, pos)

\* the split of the root made by BplusTree::insert, r being what
\* insert_helper returned for the root
RootSplitShape(r) ==
  r.state = "BT_OVERFLOW" =>
    LET ov == read_node(r.bt, r.bt.header.root_id)
        after == split_root(r.bt)
        root == after.pager[r.bt.header.root_id]
    IN SplitShape(ov, after.pager[root.children[0]],
                  after.pager[root.children[1]], root.data[0])

\* the key the next call of Database::insert on field s hands to the tree
NextKey(s, k) == Key(k, db[s].id)

\* C27: every split made by the next insertion, of a child inside
\* insert_helper or of the root inside insert, takes a node of ORDER+1 keys;
\* the left node keeps the first ceil(ORDER/2) keys; a leaf's right node gets
\* the remaining keys and its first key is the promoted one; an internal
\* node's promoted key is in neither child and the right node gets the keys
\* after it with their child pointers; nothing else is lost or added.
C27_Split ==
  \A s \in DatabaseState : \A k \in Strings :
    /\ SplitsBelowShaped(Tree(s), read_node(Tree(s), Root(s)), NextKey(s, k))
    /\ RootSplitShape(insert_helper(Tree(s), read_node(Tree(s), Root(s)),
                                    NextKey(s, k)))

\* an insertion that splits a leaf and, above it, an internal node that is
\* not the root
C27_Witness ==
  \E s \in DatabaseState : \E k \in Strings :
    SplitsBelow(Tree(s), read_node(Tree(s), Root(s)), NextKey(s, k))
      = {"leaf", "internal"}

(***************************** C28 *****************************************)
\* the iterator on the i-th stored entry of field s, in leaf-chain order
IterAt(s, i) == Iterator(Page(s, Entries(s)[i].page), Entries(s)[i].index)

\* the entries from the i-th on, in leaf-chain order
EntriesFrom(s, i) ==
  [x \in 1..(Len(Entries(s)) - i + 1) |-> Entries(s)[i + x - 1].entry]

\* one advance from the i-th entry
AdvanceOnce(s, i) ==
  LET e == Entries(s)[i]
      leaf == Page(s, e.page)
      nxt == Incr(Tree(s), IterAt(s, i))
  IN IF e.index < leaf.count - 1
     THEN nxt = Iterator(leaf, e.index + 1)
     ELSE IF leaf.right # 0
          THEN nxt = Iterator(Page(s, leaf.right), 0)
          ELSE nxt = end /\ nxt.current_pos.page_id = -1

\* C28: ++ on a stored entry moves to the next entry of the same leaf, from
\* the last entry of a leaf to index 0 of the leaf named by right, or to the
\* end sentinel (page_id = -1) when right = 0; repeated ++ from any stored
\* entry yields each following entry of the leaf chain exactly once and then
\* reaches the sentinel.
C28_Advance ==
  \A s \in DatabaseState : \A i \in 1..Len(Entries(s)) :
    /\ AdvanceOnce(s, i)
    /\ WalkFrom(Tree(s), IterAt(s, i), Len(Entries(s)) + 2) = EntriesFrom(s, i)

\* a chain of three leaves or more in which ++ leaves a leaf from index 1
\* for the next leaf
C28_Witness ==
  \E s \in DatabaseState : \E i \in 1..(Len(Entries(s)) - 1) :
    /\ Len(Chain(s)) >= 3
    /\ Entries(s)[i].index = 1
    /\ Entries(s)[i + 1].page # Entries(s)[i].page
    /\ Incr(Tree(s), IterAt(s, i)).current_pos.page_id = Entries(s)[i + 1].page

(***************************** C29 *****************************************)
\* the step is on_end_element of an author or title element
ClosesField == Len(xml') < Len(xml) /\ ParserState(xml[Len(xml)]) # "OTHER"

\* C29: when an author or title element is closed, the keys appended to the
\* list of its field are those built from all character data delivered
\* between the open and the close of that element, whatever events came in
\* between.
C29_FieldText ==
  [][ClosesField =>
       pushed(xml[Len(xml)])[ParserState(xml[Len(xml)])]
         = rx.key_list[ParserState(xml[Len(xml)])]
             \o split_key(heard[Len(heard)])]_vars

(***************************** C30 *****************************************)
\* the pieces of a text between the separators " - " and "; ", as delivered
RECURSIVE Pieces(_)
Pieces(key) ==
  IF str_find(key, Dash) # npos \/ str_find(key, Semi) # npos
  THEN <<substr0(key, first_sep(key).p)>>
       \o Pieces(erase0(key, first_sep(key).p + first_sep(key).n))
  ELSE <<key>>

\* the key text claimed for a piece
Shortened(piece) ==
  IF Len(piece) <= KEY_SIZE THEN piece
  ELSE SubSeq(piece, 1, KEY_SIZE - 3) \o Ellipsis

\* the step closes an author or title element that is a record of its own
ClosesRecordField == ClosesField /\ rx.layer_count = 2

\* the key texts the primary index of field s holds after the step, in the
\* order of their slots
StoredTexts(s) ==
  [i \in 1..(db'[s].id) |->
     (CHOOSE e \in {Walk(s)'[j] : j \in 1..Len(Walk(s)')} : e.id = i - 1).key]

\* C30: a piece of at most 64 bytes is stored in the primary key unchanged,
\* a longer piece as its first 61 bytes followed by "...".
C30_KeyText ==
  [][\A s \in DatabaseState :
       (ClosesRecordField /\ s = ParserState(xml[Len(xml)]) /\ hist[s] = <<>>)
         => StoredTexts(s)
              = [i \in 1..Len(Pieces(heard[Len(heard)])) |->
                   Shortened(Pieces(heard[Len(heard)])[i])]]_vars

(***************************** C31 *****************************************)
\* the depths below the root at which the leaves under page p lie, p itself
\* being at depth d
RECURSIVE LeafDepths(_, _, _, _)
LeafDepths(s, p, d, fuel) ==
  IF fuel = 0 \/ p \notin PageIds(s) THEN {-1}
  ELSE IF is_leaf(Page(s, p)) THEN {d}
  ELSE UNION {LeafDepths(s, Page(s, p).children[i], d + 1, fuel - 1) :
                i \in 0..Page(s, p).count}

\* C31: after any sequence of inserts the tree is height-balanced: every
\* leaf lies at the same depth below the root, which is page 1.
C31_Balanced ==
  \A s \in DatabaseState :
    /\ Root(s) = 1
    /\ \E d \in 0..MaxInsert : LeafDepths(s, Root(s), 0, Fuel(s)) = {d}

\* a tree whose leaves lie two levels below the root, under internal nodes
\* of different sizes
C31_Witness ==
  \E s \in DatabaseState :
    /\ LeafDepths(s, Root(s), 0, Fuel(s)) = {2}
    /\ \E p, q \in InternalPages(s) \ {Root(s)} :
         Page(s, p).count # Page(s, q).count

(***************************** C32 *****************************************)
\* the entries held by the leaves below page p, left to right
RECURSIVE LeafEntries(_, _, _)
LeafEntries(s, leaves, i) ==
  IF i > Len(leaves) THEN <<>>
  ELSE KeysOf(Page(s, leaves[i])) \o LeafEntries(s, leaves, i + 1)
EntriesBelow(s, p) == LeafEntries(s, LeafSeq(s, p, Fuel(s)), 1)

\* C32: after any sequence of inserts, duplicates included, every internal
\* node satisfies the weak search-tree order: every key below children[i]
\* is <= keys[i], every key below children[i+1] is >= keys[i], and keys[i]
\* is the smallest key below children[i+1].
C32_WeakOrder ==
  \A s \in DatabaseState : \A p \in InternalPages(s) :
    LET n == Page(s, p)
    IN \A i \in 0..(n.count - 1) :
         /\ \A k \in SubtreeKeys(s, n.children[i]) :
              strcmp(k, n.data[i].key) <= 0
         /\ \A k \in SubtreeKeys(s, n.children[i + 1]) :
              strcmp(k, n.data[i].key) >= 0
         /\ EntriesBelow(s, n.children[i + 1]) # <<>>
         /\ n.data[i] = EntriesBelow(s, n.children[i + 1])[1]

\* a three-level tree with a string stored twice, once on each side of the
\* key of an internal node that equals it
C32_Witness ==
  \E s \in DatabaseState : \E p \in InternalPages(s) : \E i \in 0..1 :
    /\ Depth(s) = 3
    /\ i < Page(s, p).count
    /\ \E e \in {EntriesBelow(s, Page(s, p).children[i])[x] :
                   x \in DOMAIN EntriesBelow(s, Page(s, p).children[i])} :
         e.key = Page(s, p).data[i].key

(***************************** C33 *****************************************)
\* the numbers of entries `for (it = begin(); it != end(); ++it)` can visit,
\* it having visited n; a loop still running after fuel more rounds is
\* counted with the rounds it made
RECURSIVE LoopVisits(_, _, _, _)
LoopVisits(bt, it, n, fuel) ==
  IF fuel = 0 THEN {n}
  ELSE UNION {IF go THEN LoopVisits(bt, Incr(bt, it), n + 1, fuel - 1) ELSE {n} :
                go \in NotEqual(it, end)}
Visits(s) == LoopVisits(Tree(s), begin(Tree(s)), 0, MaxInsert + 2)

\* C33: a loop from begin() that advances while the iterator differs from
\* end() visits exactly as many entries as were inserted; on a tree without
\* keys begin() compares equal to end() and the loop visits nothing.
C33_LoopVisits ==
  \A s \in DatabaseState :
    /\ Visits(s) = {Len(hist[s])}
    /\ hist[s] = <<>> => NotEqual(begin(Tree(s)), end) = {FALSE}

\* on a tree with keys the loop visits every entry and can stop then
C33_CanStop ==
  \A s \in DatabaseState :
    hist[s] # <<>> =>
      (Len(hist[s]) \in Visits(s) /\ \A v \in Visits(s) : v >= Len(hist[s]))

(***************************** C34 *****************************************)
\* the pairs Database::find can emit from entries stored for field s
Stored(s) == {<<hist[s][i].r, hist[s][i].key>> : i \in 1..Len(hist[s])}

\* every pair of the result list res was stored for field s
OnlyStored(s, res) == \A i \in 1..Len(res) : res[i] \in Stored(s)

\* C34: Database::find with a non-empty prefix terminates and emits only
\* entries stored in the tree: when the entries from the lower bound to the
\* end of the rightmost leaf all begin with the prefix, the loop stops at
\* the end of the leaf chain and emits nothing from the end sentinel.
C34_FindStops ==
  \A s \in DatabaseState : \A prefix \in Prefixes :
    prefix # <<>> =>
      \A res \in DatabaseFind(db[s], prefix) : OnlyStored(s, res)

\* the loop can stop at the sentinel: some result list holds stored pairs only
C34_CanStop ==
  \A s \in DatabaseState : \A prefix \in Prefixes :
    \E res \in DatabaseFind(db[s], prefix) : OnlyStored(s, res)

(***************************** C35 *****************************************)
\* C35: after db_close and db_open(create_new = false) of a database whose
\* top-K record file holds n TkRecords the next unknown name is stored in
\* slot n: the slot ids of the ranker stay dense across reopen.
C35_DenseSlots == cli.is_open => tk.id = get_id(tk.record_manager)

\* the same for a ranker whose record file is empty, and for the slot
\* counters of the author and title fields
C35_DenseElsewhere ==
  cli.is_open =>
    /\ get_id(tk.record_manager) = 0 => tk.id = 0
    /\ \A s \in DatabaseState : db[s].id = get_id(db[s].record_manager)

(***************************** C36 *****************************************)
\* v and w hold the same records, each as often
SameRecords(v, w) ==
  /\ Len(v) = Len(w)
  /\ \A i \in 1..Len(v) : InVec(v, v[i]) = InVec(w, v[i])

\* C36: make_topk is idempotent: make_topk(N) called twice in a row leaves
\* the retained list that one call leaves, with each stored record at most
\* once in it.
C36_Idempotent ==
  \A N \in 0..MaxN :
    \A once \in make_topk(tk.record_manager, <<>>, N) :
      \A twice \in make_topk(tk.record_manager, once, N) :
        /\ SameRecords(once, twice)
        /\ \A i \in 1..Len(twice) :
             InVec(twice, twice[i]) <= InFile(tk.record_manager, twice[i])

\* the second call retains as many records as the first
C36_SameSize ==
  \A N \in 0..MaxN :
    \A once \in make_topk(tk.record_manager, <<>>, N) :
      \A twice \in make_topk(tk.record_manager, once, N) :
        Len(twice) = Min(N, 2 * Len(once))

(***************************** C37 *****************************************)
\* C37: TopK::print(K) reads retained entries only: for every K, also a K
\* greater than the number of retained records and on a ranker on which
\* make_topk has not run, it emits min(K, retained) entries, all of them
\* retained ones, and the process goes on.
C37_PrintWithin ==
  [][(cli'.cmd = "top" /\ (printed' # printed \/ cli' # cli))
       => /\ cli'.running
          /\ printed' = SubSeq(vec', 1, Min(cli'.arg, Len(vec')))]_vars

\* the same for K within the retained list
C37_PrintWithinSize ==
  [][(cli'.cmd = "top" /\ (printed' # printed \/ cli' # cli)
        /\ cli'.arg <= Len(vec))
       => /\ cli'.running
          /\ printed' = SubSeq(vec', 1, cli'.arg)]_vars

(***************************** C38 *****************************************)
\* C38: InvertedIndex::find with an empty token list (a search command
\* without arguments) returns an empty result and never accesses an element
\* of the empty per-token result list: the command prints no record and the
\* process goes on.
C38_EmptySearch ==
  [][(cli'.cmd = "search" /\ cli'.arg = <<>> /\ cli.running)
       => (cli'.running /\ printed' = <<>>)]_vars

\* a search with tokens always leaves the process running
C38_TokensSearch ==
  [][(cli'.cmd = "search" /\ cli'.arg # <<>> /\ cli.running)
       => cli'.running]_vars

(***************************** C39 *****************************************)
\* the files, the header and the slot counter of a SubDatabase or index
Persistent(here) ==
  <<here.page_manager, here.record_manager, here.header, here.id>>

\* C39: queries are read-only: begin, find, find_geq, the advance of an
\* iterator, Database::find and InvertedIndex::find leave the bytes of every
\* index file and record file, the header of the tree and every next-slot
\* counter unchanged.  A step that inserts no record and builds no posting
\* is a query.
C39_ReadOnly ==
  [][(hist' = hist /\ iihist' = iihist)
       => /\ \A s \in DatabaseState : Persistent(db'[s]) = Persistent(db[s])
          /\ Persistent(ii') = Persistent(ii)]_vars

\* Database::find has run over an author tree of two levels whose leaves
\* hold a key with the prefix sought, and the index searched holds postings
C39_Witness ==
  /\ cli.cmd = "Database::find"
  /\ ~is_leaf(read_node(BT(db["AUTHOR"]), db["AUTHOR"].header.root_id))
  /\ \E i \in 1..Len(hist["AUTHOR"]) :
       StartsWith(Key(hist["AUTHOR"][i].key, 0).key, cli.arg)
  /\ iihist # <<>>

(***************************** C40 *****************************************)
\* the indexes that the insert of key into the tree of field s uses
InsertIndexes(s, key) == insert_indexes(BT(db[s]), Key(key, db[s].id))

\* C40: during any insert, including while a node temporarily holds
\* ORDER + 1 keys before its split, no key array of a node is indexed outside
\* 0..ORDER and no child array outside 0..ORDER + 1, in insert_in_node,
\* reset_children and write_these_nodes.  Stated for every insert the tree
\* of a field can receive next.
C40_IndexesInRange ==
  \A s \in DatabaseState : \A key \in Strings :
    /\ InsertIndexes(s, key).data \subseteq 0..ORDER
    /\ InsertIndexes(s, key).children \subseteq 0..(ORDER + 1)

\* a tree of three levels receives a key that overflows a leaf whose parent
\* holds ORDER keys, so that the parent holds ORDER + 1 keys before its split
\* and the last slot of both arrays is used
C40_Witness ==
  \E s \in DatabaseState : \E key \in Strings :
    /\ Depth(s) = 3
    /\ insert_helper(BT(db[s]), Page(s, Root(s)), Key(key, db[s].id)).state
         = "OK"
    /\ get_id(insert(BT(db[s]), Key(key, db[s].id)).pager)
         >= get_id(db[s].page_manager) + 2
    /\ ORDER \in InsertIndexes(s, key).data
    /\ ORDER + 1 \in InsertIndexes(s, key).children

=========================================================================
